---------------------------- MODULE Spec2Model ----------------------------
(***************************************************************************)
(* A model of the table renderer (package tablerenderer).                  *)
(*                                                                         *)
(* Two versions of the package are modelled:                               *)
(*   - src/tablerenderer/tablerenderer.go: the in-memory renderer, which   *)
(*     slices the rows itself (calculatePagination, paginateRows);         *)
(*   - src/unnamed/part_000, lines 740-1868: the database-paginated        *)
(*     renderer with sorting, search and page-size links.                  *)
(*                                                                         *)
(* Strings.  A Go string is modelled as a sequence of tokens.  A token is  *)
(* either one of the characters the code inspects ("?", "&", "=", "+",     *)
(* "-", a decimal digit) or a word: an indivisible run of other            *)
(* characters ("page", "sort_by", "Name", "/t").  The empty string is      *)
(* <<>>.  Splitting, trimming, joining, formatting an integer (%d) and     *)
(* strconv.Atoi are computed on these sequences as the code computes them  *)
(* on bytes.                                                               *)
(*                                                                         *)
(* Maps.  A Go map[string]string is a function from a set of keys to       *)
(* values.  `for key, value := range m` visits the keys in an order the    *)
(* runtime picks afresh for every loop: each loop over a map takes its     *)
(* order as an explicit argument, which the actions choose without         *)
(* constraint among the permutations of the keys.                          *)
(*                                                                         *)
(* Pointers.  A *Pagination, *Sorting or *Search is <<>> (nil) or <<r>>.   *)
(***************************************************************************)
EXTENDS Integers, Sequences, FiniteSets, TLC

VARIABLES
    app,     \* the web application's configuration of the renderer
    req,     \* the state of the current request, as parsed from its query
    link,    \* the link of the rendered page the user is about to follow
    again,   \* the same link, built a second time from the same state
    calc,    \* the pagination part of the last render: its input, the
             \* PaginationInfo computed and the rows handed to the template
    call     \* the last call of a helper on its own: the function, its
             \* arguments and what it returned

vars == <<app, req, link, again, calc, call>>

---------------------------------------------------------------------------
(* Bounds of the model.                                                    *)

MaxRows == 5        \* rows / total count handed to the pagination arithmetic
MaxPageSize == 3    \* page sizes handed to the pagination arithmetic
MaxPage == 7        \* requested pages handed to the pagination arithmetic
MaxQueryLen == 5    \* tokens of the strings handed to parseQueryParams
MaxTotalCount == 13 \* total count handed to the pagination controls
MaxParams == 3      \* parameters of a query handed to the parsers
MaxElems == 3       \* elements of the slice handed over as Data

---------------------------------------------------------------------------
(* Strings.                                                                *)

Str(w) == <<w>>

Digits == <<"0", "1", "2", "3", "4", "5", "6", "7", "8", "9">>

IsDigit(c) == \E i \in 1..10 : Digits[i] = c

DigitVal(c) == (CHOOSE i \in 1..10 : Digits[i] = c) - 1

RECURSIVE NatStr(_)
NatStr(n) == IF n < 10 THEN <<Digits[n + 1]>>
             ELSE NatStr(n \div 10) \o <<Digits[(n % 10) + 1]>>

\* fmt.Sprintf("%d", n)
Itoa(n) == IF n < 0 THEN <<"-">> \o NatStr(0 - n) ELSE NatStr(n)

RECURSIVE DigitsVal(_, _)
DigitsVal(s, acc) == IF s = <<>> THEN acc
                     ELSE DigitsVal(Tail(s), 10 * acc + DigitVal(Head(s)))

\* strconv.Atoi: an optional sign, then one or more decimal digits.
Atoi(s) ==
    LET body == IF s # <<>> /\ Head(s) \in {"-", "+"} THEN Tail(s) ELSE s
        good == body # <<>> /\ \A i \in 1..Len(body) : IsDigit(body[i])
        v    == IF good THEN DigitsVal(body, 0) ELSE 0
    IN  [err |-> ~good,
         val |-> IF s # <<>> /\ Head(s) = "-" THEN 0 - v ELSE v]

\* strings.Contains(s, c) for a one-character c
Contains(s, c) == \E i \in 1..Len(s) : s[i] = c

IndexOf(s, c) == CHOOSE i \in 1..Len(s) : s[i] = c /\ \A j \in 1..(i - 1) : s[j] # c

\* strings.Split(s, c)
RECURSIVE Split(_, _)
Split(s, c) ==
    IF ~Contains(s, c) THEN <<s>>
    ELSE LET i == IndexOf(s, c)
         IN  <<SubSeq(s, 1, i - 1)>> \o Split(SubSeq(s, i + 1, Len(s)), c)

\* strings.SplitN(s, c, 2)
SplitN2(s, c) ==
    IF ~Contains(s, c) THEN <<s>>
    ELSE LET i == IndexOf(s, c)
         IN  <<SubSeq(s, 1, i - 1), SubSeq(s, i + 1, Len(s))>>

\* strings.TrimPrefix(s, c) / strings.TrimSuffix(s, c) / strings.HasSuffix
TrimPrefix(s, c) == IF s # <<>> /\ Head(s) = c THEN Tail(s) ELSE s

HasSuffix(s, c) == s # <<>> /\ s[Len(s)] = c

TrimSuffix(s, c) == IF HasSuffix(s, c) THEN SubSeq(s, 1, Len(s) - 1) ELSE s

\* strings.Join(parts, c)
RECURSIVE Join(_, _)
Join(parts, c) ==
    IF parts = <<>> THEN <<>>
    ELSE IF Len(parts) = 1 THEN parts[1]
    ELSE parts[1] \o <<c>> \o Join(Tail(parts), c)

\* strings.Replace(s, "+", " ", -1)
ReplacePlus(s) == [i \in 1..Len(s) |-> IF s[i] = "+" THEN " " ELSE s[i]]

\* fmt.Sprintf("%s=%s", key, value)
KV(key, value) == key \o <<"=">> \o value

\* Go's integer division truncates toward zero.
GoDiv(a, b) ==
    IF (a >= 0) = (b > 0) THEN a \div b
    ELSE 0 - ((0 - a) \div b)

---------------------------------------------------------------------------
(* Pointers and configuration records.                                     *)

Nil == <<>>

Ptr(r) == <<r>>

Deref(p) == p[1]

\* type Pagination struct
NewPaginationStruct(enabled, pageSize, currentPage, totalCount) ==
    [Enabled |-> enabled, PageSize |-> pageSize, CurrentPage |-> currentPage,
     ShowControls |-> TRUE, ShowInfo |-> TRUE, ShowPageSizer |-> TRUE,
     PageSizeOptions |-> <<>>, BaseURL |-> <<>>, QueryParam |-> <<>>,
     PreserveQuery |-> TRUE, TotalCount |-> totalCount]

\* type PaginationInfo struct
PaginationInfo(currentPage, totalPages, totalRows, pageSize, startRow, endRow) ==
    [CurrentPage |-> currentPage, TotalPages |-> totalPages,
     TotalRows |-> totalRows, PageSize |-> pageSize,
     StartRow |-> startRow, EndRow |-> endRow]

---------------------------------------------------------------------------
(* Pagination arithmetic.                                                  *)

\* pagination == nil || !pagination.Enabled || pagination.PageSize <= 0
PaginationOff(pagination) ==
    \/ pagination = Nil
    \/ ~Deref(pagination).Enabled
    \/ Deref(pagination).PageSize <= 0

\* A faulty variant of calculatePagination, whose single-page state has no
\* page size.
calculatePaginationNoSinglePageSize(currentPageDataCount, pagination) ==
    IF PaginationOff(pagination)
    THEN PaginationInfo(1, 1, currentPageDataCount, 0, 1, currentPageDataCount)
    ELSE LET p == Deref(pagination)
             totalRows   == IF p.TotalCount = 0 THEN currentPageDataCount
                            ELSE p.TotalCount
             requested   == IF p.CurrentPage < 1 THEN 1 ELSE p.CurrentPage
             totalPages  == GoDiv(totalRows + p.PageSize - 1, p.PageSize)
             currentPage == IF requested > totalPages THEN totalPages
                            ELSE requested
             startRow    == (currentPage - 1) * p.PageSize + 1
             endRow      == IF currentPage * p.PageSize > totalRows
                            THEN totalRows ELSE currentPage * p.PageSize
         IN  PaginationInfo(currentPage, totalPages, totalRows, p.PageSize,
                            startRow, endRow)

\* A faulty variant of calculatePagination, whose EndRow is not cut at the
\* number of rows.
calculatePaginationUncutEnd(currentPageDataCount, pagination) ==
    IF PaginationOff(pagination)
    THEN PaginationInfo(1, 1, currentPageDataCount, currentPageDataCount,
                        1, currentPageDataCount)
    ELSE LET p == Deref(pagination)
             totalRows   == IF p.TotalCount = 0 THEN currentPageDataCount
                            ELSE p.TotalCount
             requested   == IF p.CurrentPage < 1 THEN 1 ELSE p.CurrentPage
             totalPages  == GoDiv(totalRows + p.PageSize - 1, p.PageSize)
             currentPage == IF requested > totalPages THEN totalPages
                            ELSE requested
         IN  PaginationInfo(currentPage, totalPages, totalRows, p.PageSize,
                            (currentPage - 1) * p.PageSize + 1,
                            currentPage * p.PageSize)

\* calculatePagination of the database version: TotalCount, when non-zero,
\* is the number of rows.
calculatePagination(currentPageDataCount, pagination) ==
    IF PaginationOff(pagination)
    THEN PaginationInfo(1, 1, currentPageDataCount, currentPageDataCount,
                        1, currentPageDataCount)
    ELSE LET p == Deref(pagination)
             totalRows   == IF p.TotalCount = 0 THEN currentPageDataCount
                            ELSE p.TotalCount
             requested   == IF p.CurrentPage < 1 THEN 1 ELSE p.CurrentPage
             totalPages  == GoDiv(totalRows + p.PageSize - 1, p.PageSize)
             currentPage == IF requested > totalPages THEN totalPages
                            ELSE requested
             startRow    == (currentPage - 1) * p.PageSize + 1
             endRow      == IF currentPage * p.PageSize > totalRows
                            THEN totalRows ELSE currentPage * p.PageSize
         IN  PaginationInfo(currentPage, totalPages, totalRows, p.PageSize,
                            startRow, endRow)

\* calculatePagination of the in-memory version.
calculatePaginationInMemory(totalRows, pagination) ==
    IF PaginationOff(pagination)
    THEN PaginationInfo(1, 1, totalRows, totalRows, 1, totalRows)
    ELSE LET p == Deref(pagination)
             requested   == IF p.CurrentPage < 1 THEN 1 ELSE p.CurrentPage
             totalPages  == GoDiv(totalRows + p.PageSize - 1, p.PageSize)
             currentPage == IF requested > totalPages THEN totalPages
                            ELSE requested
             startRow    == (currentPage - 1) * p.PageSize + 1
             endRow      == IF currentPage * p.PageSize > totalRows
                            THEN totalRows ELSE currentPage * p.PageSize
         IN  PaginationInfo(currentPage, totalPages, totalRows, p.PageSize,
                            startRow, endRow)

\* rows[lo:hi]: Go panics unless 0 <= lo <= hi <= cap(rows); the row lists of
\* the model have cap = len.
SliceRows(rows, lo, hi) ==
    IF lo < 0 \/ hi < lo \/ hi > Len(rows)
    THEN [panic |-> TRUE, rows |-> <<>>]
    ELSE [panic |-> FALSE, rows |-> SubSeq(rows, lo + 1, hi)]

\* A faulty variant of paginateRows, which starts the slice one row late.
paginateRowsFromStartRow(rows, pagination) ==
    IF PaginationOff(pagination) THEN [panic |-> FALSE, rows |-> rows]
    ELSE LET totalRows  == Len(rows)
             info       == calculatePaginationInMemory(totalRows, pagination)
             startIndex == info.StartRow
             endIndex   == IF info.EndRow > totalRows THEN totalRows
                           ELSE info.EndRow
         IN  IF startIndex >= totalRows THEN [panic |-> FALSE, rows |-> <<>>]
             ELSE SliceRows(rows, startIndex, endIndex)

\* paginateRows of the in-memory version.
paginateRows(rows, pagination) ==
    IF PaginationOff(pagination) THEN [panic |-> FALSE, rows |-> rows]
    ELSE LET totalRows  == Len(rows)
             info       == calculatePaginationInMemory(totalRows, pagination)
             startIndex == info.StartRow - 1
             endIndex   == IF info.EndRow > totalRows THEN totalRows
                           ELSE info.EndRow
         IN  IF startIndex >= totalRows THEN [panic |-> FALSE, rows |-> <<>>]
             ELSE SliceRows(rows, startIndex, endIndex)

---------------------------------------------------------------------------
(* Query strings: parsing.                                                 *)

EmptyMap == [k \in {} |-> <<>>]

\* params[key] = value
MapPut(m, key, value) ==
    [k \in (DOMAIN m) \cup {key} |-> IF k = key THEN value ELSE m[k]]

\* The orders in which a range loop may visit the keys of a map.
RECURSIVE Orders(_)
Orders(keys) ==
    IF keys = {} THEN {<<>>}
    ELSE UNION {{<<k>> \o rest : rest \in Orders(keys \ {k})} : k \in keys}

\* The loop of parseQueryParams over the pairs: a later pair replaces an
\* earlier one of the same key, a pair without "=" is skipped.
RECURSIVE PutPairs(_, _)
PutPairs(m, pairs) ==
    IF pairs = <<>> THEN m
    ELSE LET pair  == Head(pairs)
             parts == SplitN2(pair, "=")
         IN  PutPairs(IF Contains(pair, "=")
                      THEN MapPut(m, parts[1], parts[2]) ELSE m,
                      Tail(pairs))

parseQueryParams(urlOrQuery) ==
    IF urlOrQuery = <<>> THEN EmptyMap
    ELSE LET parts == Split(urlOrQuery, "?")
             query == IF Contains(urlOrQuery, "?") /\ Len(parts) > 1
                      THEN parts[2] ELSE urlOrQuery
             queryString == TrimPrefix(query, "?")
         IN  IF queryString = <<>> THEN EmptyMap
             ELSE PutPairs(EmptyMap, Split(queryString, "&"))

\* The loop of ParsePageFromQuery and of ParsePageSizeFromQuery: the first
\* pair of the given name whose value is a positive integer decides.
RECURSIVE FirstInteger(_, _, _)
FirstInteger(params, name, default) ==
    IF params = <<>> THEN default
    ELSE LET param == Head(params)
             parts == SplitN2(param, "=")
         IN  IF /\ Contains(param, "=")
                /\ parts[1] = name
                /\ ~Atoi(parts[2]).err
             THEN Atoi(parts[2]).val
             ELSE FirstInteger(Tail(params), name, default)

RECURSIVE FirstPositive(_, _, _)
FirstPositive(params, name, default) ==
    IF params = <<>> THEN default
    ELSE LET param == Head(params)
             parts == SplitN2(param, "=")
         IN  IF /\ Contains(param, "=")
                /\ parts[1] = name
                /\ ~Atoi(parts[2]).err
                /\ Atoi(parts[2]).val > 0
             THEN Atoi(parts[2]).val
             ELSE FirstPositive(Tail(params), name, default)

ParsePageFromQuery(queryString, paramName) ==
    LET name == IF paramName = <<>> THEN Str("page") ELSE paramName
    IN  IF queryString = <<>> THEN 1
        ELSE FirstPositive(Split(TrimPrefix(queryString, "?"), "&"), name, 1)

ParsePageSizeFromQuery(queryString, defaultPageSize) ==
    IF queryString = <<>> THEN defaultPageSize
    ELSE FirstPositive(Split(TrimPrefix(queryString, "?"), "&"),
                       Str("page_size"), defaultPageSize)

\* The loop of ParseSortFromQuery: the last sort pair gives the column; the
\* order becomes "desc" at the first order pair that says so and stays.
RECURSIVE SortScan(_, _, _, _)
SortScan(params, sortParam, orderParam, acc) ==
    IF params = <<>> THEN acc
    ELSE LET param == Head(params)
             parts == SplitN2(param, "=")
             next  == IF ~Contains(param, "=") THEN acc
                      ELSE IF parts[1] = sortParam
                      THEN [acc EXCEPT !.sortBy = parts[2]]
                      ELSE IF parts[1] = orderParam /\ parts[2] = Str("desc")
                      THEN [acc EXCEPT !.sortOrder = Str("desc")]
                      ELSE acc
         IN  SortScan(Tail(params), sortParam, orderParam, next)

ParseSortFromQuery(queryString, sortParam, orderParam) ==
    LET sp == IF sortParam = <<>> THEN Str("sort_by") ELSE sortParam
        op == IF orderParam = <<>> THEN Str("sort_order") ELSE orderParam
        none == [sortBy |-> <<>>, sortOrder |-> Str("asc")]
    IN  IF queryString = <<>> THEN none
        ELSE SortScan(Split(TrimPrefix(queryString, "?"), "&"), sp, op, none)

RECURSIVE FirstSearch(_, _)
FirstSearch(params, searchParam) ==
    IF params = <<>> THEN <<>>
    ELSE LET param == Head(params)
             parts == SplitN2(param, "=")
         IN  IF Contains(param, "=") /\ parts[1] = searchParam
             THEN ReplacePlus(parts[2])
             ELSE FirstSearch(Tail(params), searchParam)

ParseSearchFromQuery(rawQuery, defaultSearchParam) ==
    LET searchParam == IF defaultSearchParam = <<>> THEN Str("search")
                       ELSE defaultSearchParam
    IN  IF rawQuery = <<>> THEN <<>>
        ELSE FirstSearch(Split(rawQuery, "&"), searchParam)

\* A faulty variant of CalculateDatabaseOffset, which does not raise a page
\* below 1 to 1.
CalculateDatabaseOffsetUnclamped(page, pageSize) == (page - 1) * pageSize

\* CalculateDatabaseOffset / CalculateDatabaseLimit
CalculateDatabaseOffset(page, pageSize) ==
    ((IF page < 1 THEN 1 ELSE page) - 1) * pageSize

CalculateDatabaseLimit(pageSize) == IF pageSize <= 0 THEN 10 ELSE pageSize

---------------------------------------------------------------------------
(* Query strings: the links of a rendered page (database version).         *)

\* type Sorting struct / type Search struct
NewSortingStruct(sortBy, sortOrder, baseURL, queryParam, orderParam) ==
    [Enabled |-> TRUE, SortBy |-> sortBy, SortOrder |-> sortOrder,
     BaseURL |-> baseURL, QueryParam |-> queryParam, OrderParam |-> orderParam]

NewSearchStruct(searchTerm, baseURL, queryParam) ==
    [Enabled |-> TRUE, SearchTerm |-> searchTerm, BaseURL |-> baseURL,
     QueryParam |-> queryParam]

\* The three-way composition every link builder ends with.
ComposeURL(baseURL, queryString) ==
    IF baseURL = <<>> THEN <<"?">> \o queryString
    ELSE IF Contains(baseURL, "?") THEN baseURL \o <<"&">> \o queryString
    ELSE baseURL \o <<"?">> \o queryString

\* The pairs a range loop appends: those of the keys kept, in the order of
\* this loop's visit.
KeptPairs(m, order, dropped) ==
    LET kept == SelectSeq(order, LAMBDA key : key \notin dropped)
    IN  [i \in 1..Len(kept) |-> KV(kept[i], m[kept[i]])]

\* RenderHTML: currentParams[sort_by], currentParams[sort_order]
WithSort(m, sorting) ==
    IF sorting # Nil /\ Deref(sorting).Enabled
    THEN LET s  == Deref(sorting)
             m1 == IF s.SortBy # <<>>
                   THEN MapPut(m, Str("sort_by"), s.SortBy) ELSE m
         IN  IF s.SortOrder # <<>>
             THEN MapPut(m1, Str("sort_order"), s.SortOrder) ELSE m1
    ELSE m

\* RenderHTML: currentParams[page_size]
WithPageSize(m, info) ==
    IF info.PageSize > 0
    THEN MapPut(m, Str("page_size"), Itoa(info.PageSize)) ELSE m

\* RenderHTML: currentParams[searchParam]
WithSearch(m, search) ==
    IF search # Nil /\ Deref(search).Enabled /\ Deref(search).SearchTerm # <<>>
    THEN LET searchParam == IF Deref(search).QueryParam = <<>>
                            THEN Str("search") ELSE Deref(search).QueryParam
         IN  MapPut(m, searchParam, Deref(search).SearchTerm)
    ELSE m

PaginationOn(data) ==
    data.Options.Pagination # Nil /\ Deref(data.Options.Pagination).Enabled

\* A faulty variant of PageLinkParams, which forgets the search term.
PageLinkParamsWithoutSearch(data, info) ==
    WithPageSize(
        WithSort(parseQueryParams(Deref(data.Options.Pagination).BaseURL),
                 data.Options.Sorting),
        info)

\* RenderHTML: the parameters handed to generatePaginationHTML
PageLinkParams(data, info) ==
    WithSearch(
        WithPageSize(
            WithSort(parseQueryParams(Deref(data.Options.Pagination).BaseURL),
                     data.Options.Sorting),
            info),
        data.Options.Search)

\* RenderHTML: the parameters handed to generatePageSizeHTML
PageSizeParams(data) ==
    WithSearch(
        WithSort(parseQueryParams(Deref(data.Options.Pagination).BaseURL),
                 data.Options.Sorting),
        data.Options.Search)

\* RenderHTML: the parameters handed to generateSortLinks
SortLinkParams(data, info) ==
    LET base == parseQueryParams(Deref(data.Options.Sorting).BaseURL)
        m1 == IF PaginationOn(data)
              THEN WithPageSize(
                       MapPut(base, Str("page"),
                              Itoa(Deref(data.Options.Pagination).CurrentPage)),
                       info)
              ELSE base
    IN  WithSearch(m1, data.Options.Search)

\* RenderHTML: the parameters handed to generateSearchHTML
SearchParams(data, info) ==
    LET m1 == WithSort(parseQueryParams(Deref(data.Options.Search).BaseURL),
                       data.Options.Sorting)
    IN  IF PaginationOn(data) THEN WithPageSize(m1, info) ELSE m1

\* generatePaginationHTML: generateURL(page), its loop visiting
\* currentQueryParams in `order`.
paginationGenerateURL(pagination, currentQueryParams, order, page) ==
    LET queryParam == IF pagination.QueryParam = <<>> THEN Str("page")
                      ELSE pagination.QueryParam
        params == <<KV(queryParam, Itoa(page))>> \o
                  KeptPairs(currentQueryParams, order, {queryParam})
    IN  ComposeURL(pagination.BaseURL, Join(params, "&"))

\* A faulty variant of WindowStart, which does not shift the window back at
\* the right edge.
WindowStartUnshifted(info) ==
    IF info.TotalPages > 5
    THEN (IF info.CurrentPage - 2 < 1 THEN 1 ELSE info.CurrentPage - 2)
    ELSE 1

\* generatePaginationHTML: the first and the last numbered page shown.
WindowStart(info) ==
    IF info.TotalPages > 5
    THEN LET start == IF info.CurrentPage - 2 < 1 THEN 1
                      ELSE info.CurrentPage - 2
         IN  IF start + 4 > info.TotalPages
             THEN (IF info.TotalPages - 4 < 1 THEN 1 ELSE info.TotalPages - 4)
             ELSE start
    ELSE 1

WindowEnd(info) ==
    IF info.TotalPages > 5
    THEN LET start == IF info.CurrentPage - 2 < 1 THEN 1
                      ELSE info.CurrentPage - 2
         IN  IF start + 4 > info.TotalPages THEN info.TotalPages ELSE start + 4
    ELSE info.TotalPages

\* generatePaginationHTML: the numbered items written, the active one
\* included; none when there is at most one page.
NumberedPages(info) ==
    IF info.TotalPages <= 1 THEN <<>>
    ELSE [i \in 1..(WindowEnd(info) - WindowStart(info) + 1) |->
             WindowStart(info) + i - 1]

\* generatePaginationInfoHTML: the text of the info line
generatePaginationInfoHTML(info) ==
    IF info.TotalRows = 0 THEN <<"No records found">>
    ELSE <<"Showing ">> \o Itoa(info.StartRow) \o <<" to ">>
         \o Itoa(info.EndRow) \o <<" of ">> \o Itoa(info.TotalRows)
         \o <<" entries">>

\* generatePaginationHTML: the pages that Previous, the numbered items and
\* Next link to; none when there is at most one page.
PageLinkTargets(info) ==
    IF info.TotalPages <= 1 THEN {}
    ELSE (IF info.CurrentPage > 1 THEN {info.CurrentPage - 1} ELSE {})
         \cup {i \in WindowStart(info)..WindowEnd(info) : i # info.CurrentPage}
         \cup (IF info.CurrentPage < info.TotalPages
               THEN {info.CurrentPage + 1} ELSE {})

\* generatePageSizeHTML: the options offered
PageSizeOptions(pagination) ==
    IF pagination.PageSizeOptions = <<>> THEN <<10, 25, 50, 100>>
    ELSE pagination.PageSizeOptions

\* generatePageSizeHTML: generateURL(pageSize)
pageSizeGenerateURL(pagination, currentQueryParams, order, pageSize) ==
    LET params == <<KV(Str("page_size"), Itoa(pageSize)),
                    KV(Str("page"), Str("1"))>> \o
                  KeptPairs(currentQueryParams, order,
                            {Str("page"), Str("page_size")})
    IN  ComposeURL(pagination.BaseURL, Join(params, "&"))

\* A faulty variant of ToggledOrder, which never asks for "desc".
ToggledOrderAlwaysAsc(sorting, header) == Str("asc")

\* A faulty variant of ToggledOrder, which toggles whatever column is active.
ToggledOrderOfAnyColumn(sorting, header) ==
    IF sorting.SortOrder = Str("asc") THEN Str("desc") ELSE Str("asc")

\* generateSortLinks: the order the link of `header` asks for
ToggledOrder(sorting, header) ==
    IF sorting.SortBy = header /\ sorting.SortOrder = Str("asc")
    THEN Str("desc") ELSE Str("asc")

\* generateSortLinks: the link of one header
generateSortLink(header, sorting, currentQueryParams, order) ==
    LET sortParam  == IF sorting.QueryParam = <<>> THEN Str("sort_by")
                      ELSE sorting.QueryParam
        orderParam == IF sorting.OrderParam = <<>> THEN Str("sort_order")
                      ELSE sorting.OrderParam
        params == <<KV(sortParam, header),
                    KV(orderParam, ToggledOrder(sorting, header))>> \o
                  KeptPairs(currentQueryParams, order,
                            {sortParam, orderParam, Str("page")})
    IN  ComposeURL(sorting.BaseURL, Join(params, "&"))

\* generateSearchHTML: the parameter name of the search box
SearchQueryParam(search) ==
    IF search.QueryParam = <<>> THEN Str("search") ELSE search.QueryParam

\* generateSearchHTML: the form's action URL
searchActionURL(search, currentQueryParams, order) ==
    LET actionParams == KeptPairs(currentQueryParams, order,
                                  {SearchQueryParam(search), Str("page")})
    IN  IF Len(actionParams) > 0
        THEN ComposeURL(search.BaseURL, Join(actionParams, "&"))
        ELSE search.BaseURL

\* A faulty variant of searchHiddenFields, which forgets the page size.
searchHiddenFieldsWithoutPageSize(search, currentQueryParams, order) ==
    LET kept == SelectSeq(order, LAMBDA key :
                    key \notin {SearchQueryParam(search), Str("page"),
                                Str("page_size")})
    IN  [i \in 1..Len(kept) |->
            [name |-> kept[i], value |-> currentQueryParams[kept[i]]]]

\* generateSearchHTML: the hidden fields, in the order they are written
searchHiddenFields(search, currentQueryParams, order) ==
    LET kept == SelectSeq(order, LAMBDA key :
                    key \notin {SearchQueryParam(search), Str("page")})
    IN  [i \in 1..Len(kept) |->
            [name |-> kept[i], value |-> currentQueryParams[kept[i]]]]

\* A faulty variant of searchClearURL, which preserves no parameter.
searchClearURLBare(search, currentQueryParams, actionURL, order) ==
    IF search.BaseURL = <<>> THEN <<"/">> ELSE search.BaseURL

\* generateSearchHTML: the link of the clear button (written when the
\* search term is not empty)
searchClearURL(search, currentQueryParams, actionURL, order) ==
    LET opened == IF actionURL = <<>> THEN <<"?">>
                  ELSE IF ~Contains(actionURL, "?") THEN actionURL \o <<"?">>
                  ELSE actionURL \o <<"&">>
        clearParams == KeptPairs(currentQueryParams, order,
                                 {SearchQueryParam(search), Str("page")})
        trimmed == TrimSuffix(TrimSuffix(opened, "?"), "&")
    IN  IF Len(clearParams) > 0 THEN opened \o Join(clearParams, "&")
        ELSE IF trimmed = <<>> THEN <<"/">> ELSE trimmed

---------------------------------------------------------------------------
(* The browser and the web application around the renderer.                *)

\* The query of a URL, as the server receives it: what follows the first "?".
QueryOf(url) ==
    IF Contains(url, "?") THEN SubSeq(url, IndexOf(url, "?") + 1, Len(url))
    ELSE <<>>

\* The path of a URL: what precedes the first "?".
PathOf(url) ==
    IF Contains(url, "?") THEN SubSeq(url, 1, IndexOf(url, "?") - 1) ELSE url

\* Submitting the GET form: the browser replaces the query of the action URL
\* by the form's fields in document order, the hidden fields first, then the
\* search box.
SubmitURL(search, actionURL, hidden, term) ==
    PathOf(actionURL) \o <<"?">> \o
    Join([i \in 1..Len(hidden) |-> KV(hidden[i].name, hidden[i].value)]
         \o <<KV(SearchQueryParam(search), term)>>, "&")

Headers == <<Str("Name"), Str("Age")>>

\* The rows the application fetches for a page: LIMIT/OFFSET on a table of
\* totalCount rows.
FetchCount(totalCount, page, pageSize) ==
    LET offset == CalculateDatabaseOffset(page, pageSize)
        limit  == CalculateDatabaseLimit(pageSize)
        left   == totalCount - offset
    IN  IF left <= 0 THEN 0 ELSE IF left < limit THEN left ELSE limit

\* The request state the application parses out of a query.
HandleRequest(a, query) ==
    LET sort == ParseSortFromQuery(query, a.sortParam, a.orderParam)
    IN  [page      |-> ParsePageFromQuery(query, a.pageParam),
         pageSize  |-> ParsePageSizeFromQuery(query, a.pageSize),
         sortBy    |-> sort.sortBy,
         sortOrder |-> sort.sortOrder,
         search    |-> ParseSearchFromQuery(query, a.searchParam)]

\* CreatePaginatedDataWithSortingAndSearch: the DatabasePaginatedData the
\* application renders for a request.
Data(a, r) ==
    [Headers    |-> Headers,
     NRows      |-> FetchCount(a.totalCount, r.page, r.pageSize),
     TotalCount |-> a.totalCount,
     Options    |->
        [Pagination |-> Ptr(
            [Enabled |-> TRUE, PageSize |-> r.pageSize,
             CurrentPage |-> r.page, ShowControls |-> TRUE,
             ShowInfo |-> TRUE, ShowPageSizer |-> TRUE,
             PageSizeOptions |-> a.sizeOptions, BaseURL |-> a.baseURL,
             QueryParam |-> a.pageParam, PreserveQuery |-> TRUE,
             TotalCount |-> a.totalCount]),
         Sorting |-> IF a.enableSorting
                     THEN Ptr(NewSortingStruct(r.sortBy, r.sortOrder, a.baseURL,
                                               a.sortParam, a.orderParam))
                     ELSE Nil,
         Search |-> IF a.enableSearch
                    THEN Ptr(NewSearchStruct(r.search, a.baseURL, a.searchParam))
                    ELSE Nil]]

\* RenderHTML: paginationInfo
InfoOf(data) == calculatePagination(data.NRows, data.Options.Pagination)

CurrentData == Data(app, req)

CurrentInfo == InfoOf(CurrentData)

NoLink == [kind |-> "none", target |-> 0, url |-> <<>>, hidden |-> <<>>]

Link(kind, target, url, hidden) ==
    [kind |-> kind, target |-> target, url |-> url, hidden |-> hidden]

---------------------------------------------------------------------------
(* The applications and the requests the specifications start from.       *)

\* An application set up as CreatePaginatedDataWithSortingAndSearch sets it
\* up: the default parameter names, one base URL for the three controls.
DefaultApp ==
    [baseURL |-> <<>>, totalCount |-> 47, pageSize |-> 10,
     sizeOptions |-> <<5, 10, 25>>,
     enableSorting |-> TRUE, enableSearch |-> TRUE,
     pageParam |-> Str("page"), sortParam |-> Str("sort_by"),
     orderParam |-> Str("sort_order"), searchParam |-> Str("search")]

Apps(bases, totals, flags) ==
    {[DefaultApp EXCEPT !.baseURL = b, !.totalCount = t,
                        !.enableSorting = s, !.enableSearch = e] :
        b \in bases, t \in totals, s \in flags, e \in flags}

\* Base URLs without a query, as the constructors ask for.
BaseURLs == {<<>>, Str("/t")}

\* Base URLs that carry the query of the current request.
QueryBaseURLs ==
    {<<"/t", "?", "page", "=", "3">>,
     <<"/t", "?", "page_size", "=", "5">>}

\* Queries of the first request: typed by the user.
TypedQueries ==
    {<<>>,
     <<"page", "=", "9", "9", "&", "sort_by", "=", "Age", "&",
       "sort_order", "=", "desc">>,
     <<"page", "=", "2", "&", "page_size", "=", "5", "&",
       "search", "=", "bob">>}

---------------------------------------------------------------------------
(* Rendering a page and following one of its links.                        *)

\* The page link to `page` of the pagination control.
GenPageLink ==
    /\ link = NoLink
    /\ PaginationOn(CurrentData)
    /\ Deref(CurrentData.Options.Pagination).ShowControls
    /\ LET params == PageLinkParams(CurrentData, CurrentInfo)
       IN  \E page \in PageLinkTargets(CurrentInfo),
              order \in Orders(DOMAIN params) :
              link' = Link("page", page,
                           paginationGenerateURL(
                               Deref(CurrentData.Options.Pagination),
                               params, order, page),
                           <<>>)
    /\ UNCHANGED <<app, req, again, calc, call>>

\* The same page link, built once more from the same state.
RebuildPageLink ==
    /\ link.kind = "page"
    /\ LET params == PageLinkParams(CurrentData, CurrentInfo)
       IN  \E order \in Orders(DOMAIN params) :
              again' = Link("page", link.target,
                            paginationGenerateURL(
                                Deref(CurrentData.Options.Pagination),
                                params, order, link.target),
                            <<>>)
    /\ UNCHANGED <<app, req, link, calc, call>>

\* The link of one option of the page-size selector.
GenPageSizeLink ==
    /\ link = NoLink
    /\ PaginationOn(CurrentData)
    /\ Deref(CurrentData.Options.Pagination).ShowPageSizer
    /\ LET pagination == Deref(CurrentData.Options.Pagination)
           params  == PageSizeParams(CurrentData)
           options == PageSizeOptions(pagination)
       IN  \E i \in 1..Len(options), order \in Orders(DOMAIN params) :
              link' = Link("size", options[i],
                           pageSizeGenerateURL(pagination, params, order,
                                               options[i]),
                           <<>>)
    /\ UNCHANGED <<app, req, again, calc, call>>

\* The sort link of one column header.
GenSortLink ==
    /\ link = NoLink
    /\ CurrentData.Options.Sorting # Nil
    /\ Deref(CurrentData.Options.Sorting).Enabled
    /\ LET params == SortLinkParams(CurrentData, CurrentInfo)
       IN  \E i \in 1..Len(CurrentData.Headers),
              order \in Orders(DOMAIN params) :
              link' = Link("sort", i,
                           generateSortLink(CurrentData.Headers[i],
                               Deref(CurrentData.Options.Sorting),
                               params, order),
                           <<>>)
    /\ UNCHANGED <<app, req, again, calc, call>>

SearchTerms == {<<>>, Str("bob")}

\* The search form, filled in with a term and submitted.
GenSearchForm ==
    /\ link = NoLink
    /\ CurrentData.Options.Search # Nil
    /\ Deref(CurrentData.Options.Search).Enabled
    /\ LET search == Deref(CurrentData.Options.Search)
           params == SearchParams(CurrentData, CurrentInfo)
       IN  \E term \in SearchTerms,
              order1 \in Orders(DOMAIN params),
              order2 \in Orders(DOMAIN params) :
              LET hidden == searchHiddenFields(search, params, order2)
              IN  link' = Link("search", 0,
                               SubmitURL(search,
                                   searchActionURL(search, params, order1),
                                   hidden, term),
                               hidden)
    /\ UNCHANGED <<app, req, again, calc, call>>

\* RenderHTML, generateSearchHTML: the clear button is written when search
\* is enabled and the search term is not empty.
ClearLinkShown ==
    /\ CurrentData.Options.Search # Nil
    /\ Deref(CurrentData.Options.Search).Enabled
    /\ Deref(CurrentData.Options.Search).SearchTerm # <<>>

\* The link of the clear-search button.
GenClearLink ==
    /\ link = NoLink
    /\ ClearLinkShown
    /\ LET search == Deref(CurrentData.Options.Search)
           params == SearchParams(CurrentData, CurrentInfo)
       IN  \E order1 \in Orders(DOMAIN params),
              order3 \in Orders(DOMAIN params) :
              link' = Link("clear", 0,
                           searchClearURL(search, params,
                               searchActionURL(search, params, order1),
                               order3),
                           <<>>)
    /\ UNCHANGED <<app, req, again, calc, call>>

\* The user follows the link; the application parses the next request.
Follow ==
    /\ link # NoLink
    /\ req' = HandleRequest(app, QueryOf(link.url))
    /\ link' = NoLink
    /\ again' = NoLink
    /\ UNCHANGED <<app, calc, call>>

---------------------------------------------------------------------------
(* A user who keeps following Next, or keeps following Previous.           *)

\* generatePaginationHTML: Previous and Next are links or disabled items.
PreviousIsLink(info) == info.TotalPages > 1 /\ info.CurrentPage > 1

NextIsLink(info) ==
    info.TotalPages > 1 /\ info.CurrentPage < info.TotalPages

\* A faulty variant of NextTarget, which links to the current page.
NextTargetCurrentPage(info) == info.CurrentPage

\* generatePaginationHTML: the pages Previous and Next link to.
PreviousTarget(info) == info.CurrentPage - 1

NextTarget(info) == info.CurrentPage + 1

\* The walk the user is on: the control they keep following and the page
\* they started from.
Walk(control, start) ==
    [fn |-> "walk", args |-> <<control, start>>, result |-> <<>>]

\* The page is rendered and the user takes its Next link.
TakeNext ==
    /\ call.fn = "walk" /\ call.args[1] = "Next"
    /\ link = NoLink
    /\ PaginationOn(CurrentData)
    /\ Deref(CurrentData.Options.Pagination).ShowControls
    /\ NextIsLink(CurrentInfo)
    /\ LET params == PageLinkParams(CurrentData, CurrentInfo)
       IN  \E order \in Orders(DOMAIN params) :
              link' = Link("page", NextTarget(CurrentInfo),
                           paginationGenerateURL(
                               Deref(CurrentData.Options.Pagination),
                               params, order, NextTarget(CurrentInfo)),
                           <<>>)
    /\ UNCHANGED <<app, req, again, calc, call>>

\* The page is rendered and the user takes its Previous link.
TakePrevious ==
    /\ call.fn = "walk" /\ call.args[1] = "Previous"
    /\ link = NoLink
    /\ PaginationOn(CurrentData)
    /\ Deref(CurrentData.Options.Pagination).ShowControls
    /\ PreviousIsLink(CurrentInfo)
    /\ LET params == PageLinkParams(CurrentData, CurrentInfo)
       IN  \E order \in Orders(DOMAIN params) :
              link' = Link("page", PreviousTarget(CurrentInfo),
                           paginationGenerateURL(
                               Deref(CurrentData.Options.Pagination),
                               params, order, PreviousTarget(CurrentInfo)),
                           <<>>)
    /\ UNCHANGED <<app, req, again, calc, call>>

---------------------------------------------------------------------------
(* The pagination part of a render.                                        *)

\* The rows of the model are numbered 1..n.
Rows(n) == [i \in 1..n |-> i]

PaginationInputs ==
    {Nil} \cup
    {Ptr(NewPaginationStruct(e, ps, cp, tc)) :
        e \in BOOLEAN, ps \in (0 - 1)..MaxPageSize,
        cp \in (0 - 1)..MaxPage, tc \in 0..MaxRows}

\* The Pagination struct of the in-memory version has no TotalCount.
InMemoryInputs ==
    {p \in PaginationInputs : IF p = Nil THEN TRUE ELSE Deref(p).TotalCount = 0}

\* RenderHTML of the in-memory version, up to the rows handed to the
\* template: calculatePagination, then paginateRows.
RenderedInMemory(rows, pagination) ==
    [version    |-> "memory",
     rows       |-> rows,
     pagination |-> pagination,
     info       |-> calculatePaginationInMemory(Len(rows), pagination),
     shown      |-> paginateRows(rows, pagination)]

\* A faulty variant of RenderedDatabase, which slices the rows as the
\* in-memory version does.
RenderedDatabaseSliced(rows, pagination) ==
    [version    |-> "database",
     rows       |-> rows,
     pagination |-> pagination,
     info       |-> calculatePagination(Len(rows), pagination),
     shown      |-> paginateRows(rows, pagination)]

\* RenderHTML of the database version, up to the rows handed to the
\* template: calculatePagination; the rows are used as they are.
RenderedDatabase(rows, pagination) ==
    [version    |-> "database",
     rows       |-> rows,
     pagination |-> pagination,
     info       |-> calculatePagination(Len(rows), pagination),
     shown      |-> [panic |-> FALSE, rows |-> rows]]

\* Before any call.
NoCall == [fn |-> "none", args |-> <<>>, result |-> <<>>]

\* Before any render.
NoRender ==
    [version |-> "none", rows |-> <<>>, pagination |-> Nil,
     info |-> PaginationInfo(0, 0, 0, 0, 0, 0),
     shown |-> [panic |-> FALSE, rows |-> <<>>]]

RenderInMemory ==
    /\ calc = NoRender
    /\ \E n \in 0..MaxRows, pagination \in InMemoryInputs :
          calc' = RenderedInMemory(Rows(n), pagination)
    /\ UNCHANGED <<app, req, link, again, call>>

RenderDatabase ==
    /\ calc = NoRender
    /\ \E n \in 0..MaxRows, pagination \in PaginationInputs :
          calc' = RenderedDatabase(Rows(n), pagination)
    /\ UNCHANGED <<app, req, link, again, call>>

---------------------------------------------------------------------------
(* The query codec on its own: parseQueryParams, and the serialisation of   *)
(* generatePaginationHTML followed by parseQueryParams.                     *)

QueryAlphabet == {"?", "&", "=", "a", "b"}

\* The strings of at most n tokens of the alphabet.
RECURSIVE StringsUpTo(_)
StringsUpTo(n) ==
    IF n = 0 THEN {<<>>}
    ELSE LET shorter == StringsUpTo(n - 1)
         IN  shorter \cup {<<c>> \o t : c \in QueryAlphabet,
                                        t \in {u \in shorter : Len(u) = n - 1}}

\* parseQueryParams(x), for any string x.
CallParse ==
    /\ call = NoCall
    /\ \E x \in StringsUpTo(MaxQueryLen) :
          call' = [fn |-> "parseQueryParams", args |-> <<x>>,
                   result |-> parseQueryParams(x)]
    /\ UNCHANGED <<app, req, link, again, calc>>

\* Base URLs and parameter mappings handed to generateURL.  No value holds
\* "&" or "="; the page parameter is not one of the keys.
CodecBaseURLs ==
    {<<>>, Str("/t"), <<"/t", "?", "tab", "=", "x">>,
     <<"/t", "?", "k", "=", "0">>}

CodecValues == {<<>>, Str("v"), <<"a", " ", "b">>, <<"x", "?", "y">>}

CodecMappings ==
    UNION {[keys -> CodecValues] : keys \in SUBSET {Str("k"), Str("s")}}

\* generateURL(page) of generatePaginationHTML on a base URL and a mapping,
\* then parseQueryParams on the link.
CallSerializeParse ==
    /\ call = NoCall
    /\ \E base \in CodecBaseURLs, mapping \in CodecMappings, page \in {1, 2} :
          \E order \in Orders(DOMAIN mapping) :
             LET pagination ==
                     [NewPaginationStruct(TRUE, 10, 1, 0)
                          EXCEPT !.BaseURL = base]
                 url == paginationGenerateURL(pagination, mapping, order,
                                              page)
             IN  call' = [fn |-> "generateURL",
                          args |-> <<base, mapping, page>>,
                          result |-> [url |-> url,
                                      parsed |-> parseQueryParams(url)]]
    /\ UNCHANGED <<app, req, link, again, calc>>

---------------------------------------------------------------------------
(* The pagination controls of a render on their own: the numbered items of  *)
(* the pagination control and the info line.                                *)

ControlInputs ==
    {Ptr([NewPaginationStruct(e, ps, cp, tc)
              EXCEPT !.ShowInfo = si, !.ShowControls = sc]) :
        e \in BOOLEAN, si \in BOOLEAN, sc \in BOOLEAN,
        ps \in 0..MaxPageSize, cp \in 0..(MaxTotalCount + 1),
        tc \in 0..MaxTotalCount}

\* RenderHTML of the database version: paginationControls and
\* paginationInfoHTML; each is empty when it is not rendered.
RenderControls ==
    /\ call = NoCall
    /\ \E n \in {0, 2}, pagination \in ControlInputs :
          LET info == calculatePagination(n, pagination)
              p    == Deref(pagination)
          IN  call' =
                [fn |-> "controls",
                 args |-> <<n, pagination>>,
                 result |->
                    [info |-> info,
                     numbered |-> IF p.Enabled /\ p.ShowControls
                                  THEN NumberedPages(info) ELSE <<>>,
                     infoShown |-> p.Enabled /\ p.ShowInfo,
                     infoLine |-> IF p.Enabled /\ p.ShowInfo
                                  THEN generatePaginationInfoHTML(info)
                                  ELSE <<>>]]
    /\ UNCHANGED <<app, req, link, again, calc>>

---------------------------------------------------------------------------
(* The database paging helpers on their own.                                *)

\* CalculateDatabaseOffset(page, pageSize) and CalculateDatabaseLimit(pageSize)
\* for pages and page sizes below, at and above zero.
CallDatabaseHelpers ==
    /\ call = NoCall
    /\ \E page \in (0 - MaxPage)..MaxPage,
          pageSize \in (0 - MaxPageSize)..MaxTotalCount :
          call' = [fn |-> "offsetLimit",
                   args |-> <<page, pageSize>>,
                   result |->
                      [offset |-> CalculateDatabaseOffset(page, pageSize),
                       limit  |-> CalculateDatabaseLimit(pageSize)]]
    /\ UNCHANGED <<app, req, link, again, calc>>

---------------------------------------------------------------------------
(* RenderHTML on the Data field (database version).                         *)
(*                                                                          *)
(* A value handed over as Data is a record: ptr says whether it is a        *)
(* pointer; kind is the kind of the value (of the pointed-to value for a    *)
(* pointer, "invalid" for a nil pointer); a slice has the static type of    *)
(* its elements ("struct", "ptr" for a pointer to a struct, "interface",    *)
(* "int") and its elements: "struct" for a struct, "struct*" for a pointer  *)
(* to one, "nil" for a nil pointer, "int" for an integer.                   *)

ElemValues(elemType) ==
    CASE elemType = "struct"    -> {"struct"}
      [] elemType = "ptr"       -> {"struct*", "nil"}
      [] elemType = "interface" -> {"struct", "struct*", "nil", "int"}
      [] elemType = "int"       -> {"int"}

\* The sequences of at most n elements of a set.
RECURSIVE SeqsUpTo(_, _)
SeqsUpTo(S, n) ==
    IF n = 0 THEN {<<>>}
    ELSE LET shorter == SeqsUpTo(S, n - 1)
         IN  shorter \cup {<<e>> \o t : e \in S,
                                        t \in {u \in shorter : Len(u) = n - 1}}

DataValues ==
    {[ptr |-> p, kind |-> k, elemType |-> "none", elems |-> <<>>] :
        p \in BOOLEAN, k \in {"int", "struct", "map"}}
    \cup {[ptr |-> TRUE, kind |-> "invalid", elemType |-> "none",
           elems |-> <<>>]}
    \cup UNION {{[ptr |-> p, kind |-> "slice", elemType |-> t, elems |-> es] :
                    p \in BOOLEAN, es \in SeqsUpTo(ElemValues(t), MaxElems)} :
                t \in {"struct", "ptr", "interface", "int"}}

\* reflect: the kind of element i of the slice, a pointer followed once.
\* An element of a []interface{} has the kind Interface whatever it holds;
\* following a nil pointer gives the zero Value, of kind Invalid.
ElemKind(data, i) ==
    CASE data.elemType = "struct"    -> "struct"
      [] data.elemType = "ptr"       -> IF data.elems[i] = "nil" THEN "invalid"
                                        ELSE "struct"
      [] data.elemType = "interface" -> "interface"
      [] data.elemType = "int"       -> "int"

\* convertStructSliceToRows: an error, a panic (NumField on the zero Value)
\* or the number of rows converted.
convertStructSliceToRows(data) ==
    IF data.kind # "slice"
    THEN [panic |-> FALSE, err |-> TRUE, rows |-> 0]
    ELSE IF Len(data.elems) = 0
    THEN [panic |-> FALSE, err |-> FALSE, rows |-> 0]
    ELSE IF ElemKind(data, 1) # "struct"
    THEN [panic |-> FALSE, err |-> TRUE, rows |-> 0]
    ELSE IF \E i \in 1..Len(data.elems) : ElemKind(data, i) = "invalid"
    THEN [panic |-> TRUE, err |-> FALSE, rows |-> 0]
    ELSE [panic |-> FALSE, err |-> FALSE, rows |-> Len(data.elems)]

\* RenderHTML with a Data field: aborted by a panic, or returning an error
\* with the empty string, or returning the markup.
RenderHTMLOfData(data) ==
    LET converted == convertStructSliceToRows(data)
    IN  IF converted.panic
        THEN [aborted |-> TRUE, err |-> FALSE, output |-> <<>>]
        ELSE IF converted.err
        THEN [aborted |-> FALSE, err |-> TRUE, output |-> <<>>]
        ELSE [aborted |-> FALSE, err |-> FALSE,
              output |-> <<"<table>", Itoa(converted.rows), "</table>">>]

RenderData ==
    /\ call = NoCall
    /\ \E data \in DataValues :
          call' = [fn |-> "RenderHTML", args |-> <<data>>,
                   result |-> RenderHTMLOfData(data)]
    /\ UNCHANGED <<app, req, link, again, calc>>

---------------------------------------------------------------------------
(* The query parsers on their own: ParsePageFromQuery, ParseSortFromQuery. *)

\* The parameters of a typed query: a key, whether "=" follows, a value.
QueryParam(key, eq, value) == [key |-> key, eq |-> eq, value |-> value]

QueryParams ==
    {QueryParam(Str("page"), TRUE, Str("3")),
     QueryParam(Str("page"), TRUE, Str("0")),
     QueryParam(Str("page"), TRUE, <<"-", "3">>),
     QueryParam(Str("page"), TRUE, <<"+", "2">>),
     QueryParam(Str("page"), TRUE, Str("x")),
     QueryParam(Str("page"), FALSE, <<>>),
     QueryParam(Str("p"), TRUE, Str("2")),
     QueryParam(Str("sort_order"), TRUE, Str("desc")),
     QueryParam(Str("sort_order"), TRUE, Str("asc")),
     QueryParam(Str("sort_order"), TRUE, Str("x")),
     QueryParam(Str("o"), TRUE, Str("desc"))}

ParamString(param) ==
    IF param.eq THEN KV(param.key, param.value) ELSE param.key

\* The query string of a list of parameters, with or without a leading "?".
QueryString(lead, params) ==
    (IF lead THEN <<"?">> ELSE <<>>)
        \o Join([i \in 1..Len(params) |-> ParamString(params[i])], "&")

\* The parameter names handed to the parsers: empty (the defaults) or set.
ParserNames ==
    {[page |-> <<>>, sort |-> <<>>, order |-> <<>>],
     [page |-> Str("p"), sort |-> Str("s"), order |-> Str("o")]}

CallParsers ==
    /\ call = NoCall
    /\ \E lead \in BOOLEAN, params \in SeqsUpTo(QueryParams, MaxParams),
          names \in ParserNames :
          LET queryString == QueryString(lead, params)
          IN  call' = [fn |-> "ParseFromQuery",
                       args |-> <<queryString, params, names>>,
                       result |->
                           [page |-> ParsePageFromQuery(queryString,
                                                        names.page),
                            sort |-> ParseSortFromQuery(queryString,
                                         names.sort, names.order)]]
    /\ UNCHANGED <<app, req, link, again, calc>>

---------------------------------------------------------------------------
(* Two renders sharing one DatabasePaginatedData value, and SetPage.        *)
(*                                                                          *)
(* The store is the value both renders were handed: the options struct and  *)
(* the configurations it points to, the headers and the rows.  A render    *)
(* goes through the calls of RenderHTML one at a time, each reading the     *)
(* store as it is then; the two renders interleave at these calls.          *)

\* A faulty variant of StoreAfter, in which calculatePagination writes the
\* clamped page back through the pointer.
StoreAfterClampWrittenBack(fn, store, info) ==
    IF fn = "calculatePagination" /\ PaginationOn(store)
    THEN [store EXCEPT !.Options.Pagination =
              Ptr([Deref(@) EXCEPT !.CurrentPage = info.CurrentPage])]
    ELSE store

\* The store after a call of RenderHTML: no callee assigns through the
\* pointers or to the elements of the slices it is handed; the clamped page
\* of calculatePagination is a local, each currentParams is a fresh map.
StoreAfter(fn, store, info) == store

RenderCalls ==
    <<"convertStructSliceToRows", "calculatePagination",
      "generatePaginationHTML", "generateSortLinks", "generateSearchHTML",
      "return">>

NoOutput ==
    [err |-> FALSE, info |-> PaginationInfo(0, 0, 0, 0, 0, 0),
     pages |-> <<>>, sort |-> <<>>, search |-> <<>>]

\* One call of RenderHTML, from what the store holds now: the next position
\* and what the render has produced so far.  The links are kept as their
\* target pages and parameter mappings.
RenderStep(pc, store, bad, out) ==
    CASE pc = 1 ->
           IF bad THEN [pc |-> 6, out |-> [out EXCEPT !.err = TRUE]]
           ELSE [pc |-> 2, out |-> out]
      [] pc = 2 ->
           [pc |-> 3, out |-> [out EXCEPT !.info = InfoOf(store)]]
      [] pc = 3 ->
           [pc |-> 4,
            out |-> [out EXCEPT !.pages =
                IF PaginationOn(store)
                THEN <<[targets  |-> PageLinkTargets(out.info),
                        params   |-> PageLinkParams(store, out.info),
                        sizes    |-> PageSizeParams(store),
                        infoLine |-> generatePaginationInfoHTML(out.info)]>>
                ELSE <<>>]]
      [] pc = 4 ->
           [pc |-> 5,
            out |-> [out EXCEPT !.sort =
                IF store.Options.Sorting # Nil
                THEN <<[params |-> SortLinkParams(store, out.info),
                        orders |-> [i \in 1..Len(store.Headers) |->
                                      ToggledOrder(
                                          Deref(store.Options.Sorting),
                                          store.Headers[i])]]>>
                ELSE <<>>]]
      [] pc = 5 ->
           [pc |-> 6,
            out |-> [out EXCEPT !.search =
                IF store.Options.Search # Nil
                THEN <<[params |-> SearchParams(store, out.info),
                        term   |-> Deref(store.Options.Search).SearchTerm]>>
                ELSE <<>>]]

\* RenderHTML on its own: all its calls on one store.
RECURSIVE RenderHTMLFrom(_, _, _, _)
RenderHTMLFrom(pc, store, bad, out) ==
    IF pc = 6 THEN out
    ELSE LET step == RenderStep(pc, store, bad, out)
         IN  RenderHTMLFrom(step.pc, store, bad, step.out)

RenderHTMLAlone(store, bad) == RenderHTMLFrom(1, store, bad, NoOutput)

\* The values two renders share: what the application builds for a request,
\* with and without pagination, with a Data field that converts or not.
SharedStores ==
    LET built == {Data(a, HandleRequest(a, query)) :
                     a \in Apps({Str("/t")}, {47}, BOOLEAN),
                     query \in TypedQueries}
    IN  built \cup {[d EXCEPT !.Options.Pagination = Nil] : d \in built}

\* Two renders are handed the same value.
ShareOptions ==
    /\ call = NoCall
    /\ \E store \in SharedStores, bad \in BOOLEAN :
          call' = [fn |-> "RenderHTML|RenderHTML",
                   args |-> <<store, bad>>,
                   result |-> [store |-> store, pc |-> <<1, 1>>,
                               out |-> <<NoOutput, NoOutput>>]]
    /\ UNCHANGED <<app, req, link, again, calc>>

\* One of the two renders makes its next call.
RenderNextCall ==
    /\ call.fn = "RenderHTML|RenderHTML"
    /\ \E p \in {1, 2} :
          /\ call.result.pc[p] < 6
          /\ LET r    == call.result
                 step == RenderStep(r.pc[p], r.store, call.args[2], r.out[p])
             IN  call' = [call EXCEPT
                     !.result.pc[p]  = step.pc,
                     !.result.out[p] = step.out,
                     !.result.store  = StoreAfter(RenderCalls[r.pc[p]],
                                                  r.store, step.out.info)]
    /\ UNCHANGED <<app, req, link, again, calc>>

\* A faulty variant of SetPage, which sets the page through the pointer.
SetPageInPlace(heap, data, page) ==
    IF data.Options.Pagination # 0
    THEN [heap |-> [heap EXCEPT ![data.Options.Pagination].CurrentPage = page],
          data |-> data]
    ELSE [heap |-> heap, data |-> data]

\* SetPage of the in-memory version.  The Pagination structs live in a heap,
\* a TableData points to one by its address (0 is nil); the copy of the
\* struct gets a new address.
SetPage(heap, data, page) ==
    IF data.Options.Pagination # 0
    THEN LET newPagination ==
                 [heap[data.Options.Pagination] EXCEPT !.CurrentPage = page]
         IN  [heap |-> Append(heap, newPagination),
              data |-> [data EXCEPT !.Options.Pagination = Len(heap) + 1]]
    ELSE [heap |-> heap, data |-> data]

\* SetPage(data, page) on a TableData with and without pagination.
CallSetPage ==
    /\ call = NoCall
    /\ \E ps \in 1..MaxPageSize, cp \in 1..MaxPage, page \in 0..(MaxPage + 1),
          address \in {0, 1} :
          LET heap == <<NewPaginationStruct(TRUE, ps, cp, 0)>>
              data == [Headers |-> Headers, Rows |-> Rows(MaxRows),
                       Options |-> [Pagination |-> address]]
          IN  call' = [fn |-> "SetPage", args |-> <<heap, data, page>>,
                       result |-> SetPage(heap, data, page)]
    /\ UNCHANGED <<app, req, link, again, calc>>

---------------------------------------------------------------------------
(* The page links of a render with PreserveQuery set and not set.           *)

\* What the application builds for a request, PreserveQuery set or not.
PreserveInputs ==
    {[d EXCEPT !.Options.Pagination =
          Ptr([Deref(@) EXCEPT !.PreserveQuery = preserve])] :
        d \in {Data(a, HandleRequest(a, query)) :
                  a \in Apps(BaseURLs, {47}, BOOLEAN),
                  query \in TypedQueries},
        preserve \in BOOLEAN}

\* RenderHTML: one page link of the pagination control.
RenderPageLink ==
    /\ call = NoCall
    /\ \E data \in PreserveInputs :
          LET info   == InfoOf(data)
              params == PageLinkParams(data, info)
          IN  \E page \in PageLinkTargets(info),
                 order \in Orders(DOMAIN params) :
                 call' = [fn |-> "generatePaginationHTML",
                          args |-> <<data, page>>,
                          result |-> paginationGenerateURL(
                                         Deref(data.Options.Pagination),
                                         params, order, page)]
    /\ UNCHANGED <<app, req, link, again, calc>>

---------------------------------------------------------------------------
(* The items of the pagination control, of both versions.                   *)

\* A faulty variant of PaginationItems, which writes the current page as a
\* link like the other pages.
PaginationItemsCurrentLinked(info) ==
    IF info.TotalPages <= 1 THEN <<>>
    ELSE <<[label |-> "Previous", kind |-> "link",
            page |-> info.CurrentPage - 1]>>
         \o [i \in 1..Len(NumberedPages(info)) |->
                [label |-> "number", kind |-> "link",
                 page |-> NumberedPages(info)[i]]]
         \o <<[label |-> "Next", kind |-> "link",
               page |-> info.CurrentPage + 1]>>

\* generatePaginationHTML: the items written, in order.  An item is a link
\* to a page, the active item of the current page, or a disabled item.
PaginationItems(info) ==
    IF info.TotalPages <= 1 THEN <<>>
    ELSE <<IF info.CurrentPage > 1
           THEN [label |-> "Previous", kind |-> "link",
                 page |-> info.CurrentPage - 1]
           ELSE [label |-> "Previous", kind |-> "disabled", page |-> 0]>>
         \o [i \in 1..Len(NumberedPages(info)) |->
                [label |-> "number",
                 kind  |-> IF NumberedPages(info)[i] = info.CurrentPage
                           THEN "active" ELSE "link",
                 page  |-> NumberedPages(info)[i]]]
         \o <<IF info.CurrentPage < info.TotalPages
              THEN [label |-> "Next", kind |-> "link",
                    page |-> info.CurrentPage + 1]
              ELSE [label |-> "Next", kind |-> "disabled", page |-> 0]>>

\* RenderHTML: paginationControls of the version, for a Pagination that is
\* not nil; the in-memory version slices the rows first and may panic there.
RenderedControl(version, n, pagination) ==
    LET info == IF version = "memory"
                THEN calculatePaginationInMemory(n, pagination)
                ELSE calculatePagination(n, pagination)
        panic == version = "memory" /\ paginateRows(Rows(n), pagination).panic
        p == Deref(pagination)
    IN  [panic |-> panic,
         info  |-> info,
         shown |-> ~panic /\ p.Enabled /\ p.ShowControls,
         items |-> IF ~panic /\ p.Enabled /\ p.ShowControls
                   THEN PaginationItems(info) ELSE <<>>]

RenderPaginationControl ==
    /\ call = NoCall
    /\ \E version \in {"memory", "database"}, n \in 0..MaxTotalCount,
          pagination \in ControlInputs :
          /\ version = "memory" => Deref(pagination).TotalCount = 0
          /\ version = "database" => n \in {0, 2}
          /\ call' = [fn |-> "generatePaginationHTML",
                      args |-> <<version, n, pagination>>,
                      result |-> RenderedControl(version, n, pagination)]
    /\ UNCHANGED <<app, req, link, again, calc>>

---------------------------------------------------------------------------
(* The in-memory version rendered page after page over one row list.       *)

\* The application starts on a row list with a page size.
StartPaging ==
    /\ call = NoCall
    /\ \E n \in 1..MaxRows, pageSize \in 1..MaxPageSize :
          call' = [fn |-> "paginateRows", args |-> <<Rows(n), pageSize>>,
                   result |-> <<>>]
    /\ UNCHANGED <<app, req, link, again, calc>>

\* RenderHTML of the in-memory version for the next page: calculatePagination
\* and paginateRows with CurrentPage set to it.
RenderNextPage ==
    /\ call.fn = "paginateRows"
    /\ LET rows == call.args[1]
           pagination ==
               Ptr(NewPaginationStruct(TRUE, call.args[2],
                                       Len(call.result) + 1, 0))
           info == calculatePaginationInMemory(Len(rows), pagination)
       IN  /\ Len(call.result) < info.TotalPages
           /\ call' = [call EXCEPT !.result =
                  Append(@, [info  |-> info,
                             shown |-> paginateRows(rows, pagination)])]
    /\ UNCHANGED <<app, req, link, again, calc>>

---------------------------------------------------------------------------
(* Specifications.                                                         *)

InitWith(apps) ==
    /\ app \in apps
    /\ \E query \in TypedQueries : req = HandleRequest(app, query)
    /\ link = NoLink
    /\ again = NoLink
    /\ calc = NoRender
    /\ call = NoCall

Init == InitWith(Apps(BaseURLs, {0, 47}, BOOLEAN))

Next ==
    \/ GenPageLink
    \/ GenPageSizeLink
    \/ GenSortLink
    \/ GenSearchForm
    \/ GenClearLink
    \/ Follow

\* The request loop of an application with query-less base URLs.
Spec == Init /\ [][Next]_vars

InitAnyBase == InitWith(Apps({Str("/t")} \cup QueryBaseURLs, {47}, {TRUE}))

\* The request loop, the base URL being any URL.
SpecAnyBase == InitAnyBase /\ [][Next]_vars

InitTwice == InitWith(Apps(BaseURLs, {47}, {TRUE}))

NextTwice ==
    \/ GenPageLink
    \/ RebuildPageLink

\* One page link of one render, built twice.
SpecTwice == InitTwice /\ [][NextTwice]_vars

\* The sort states a caller may put into the Sorting struct: no column, a
\* column of the table or another one; no order, "asc" or "desc".
SortStates ==
    [page : {1, 3}, pageSize : {10}, search : SearchTerms,
     sortBy : {<<>>, Str("Name"), Str("Age"), Str("Id")},
     sortOrder : {<<>>, Str("asc"), Str("desc")}]

InitSortLinks ==
    /\ app \in Apps(BaseURLs, {47}, {TRUE})
    /\ req \in SortStates
    /\ link = NoLink
    /\ again = NoLink
    /\ calc = NoRender
    /\ call = NoCall

\* The sort links of one render, for any Sorting struct.
SpecSortLinks == InitSortLinks /\ [][GenSortLink]_vars

InitCalc == InitWith({DefaultApp})

NextCalc ==
    \/ RenderInMemory
    \/ RenderDatabase

\* The pagination arithmetic on its own.
SpecCalc == InitCalc /\ [][NextCalc]_vars

\* The pagination controls on their own.
SpecControls == InitCalc /\ [][RenderControls]_vars

\* The database paging helpers on their own.
SpecHelpers == InitCalc /\ [][CallDatabaseHelpers]_vars

\* RenderHTML on the Data field.
SpecData == InitCalc /\ [][RenderData]_vars

\* The query parsers on their own.
SpecParsers == InitCalc /\ [][CallParsers]_vars

NextShared ==
    \/ ShareOptions
    \/ RenderNextCall
    \/ CallSetPage

\* Renders that share their input, and SetPage.
SpecShared == InitCalc /\ [][NextShared]_vars

\* Applications whose parameter names are all set to names of their own.
NamedApps ==
    {[a EXCEPT !.pageParam = Str("p"), !.sortParam = Str("s"),
               !.orderParam = Str("o"), !.searchParam = Str("q")] :
        a \in Apps({Str("/t")}, {47}, BOOLEAN)}

\* Queries of the first request under these names.
NamedQueries ==
    {<<>>,
     <<"p", "=", "2", "&", "s", "=", "Age", "&", "o", "=", "desc">>,
     <<"p", "=", "3", "&", "page_size", "=", "5", "&", "q", "=", "bob">>}

InitNames ==
    /\ app \in NamedApps
    /\ \E query \in NamedQueries : req = HandleRequest(app, query)
    /\ link = NoLink
    /\ again = NoLink
    /\ calc = NoRender
    /\ call = NoCall

\* The request loop of an application with configured parameter names.
SpecNames == InitNames /\ [][Next]_vars

\* The page links with PreserveQuery set and not set.
SpecPreserve == InitCalc /\ [][RenderPageLink]_vars

\* Queries of the first request of a walk: the first page, a page in the
\* middle, the last page, a page past the last one.
WalkQueries ==
    TypedQueries \cup {<<"page", "=", "3">>, <<"page", "=", "5">>}

InitWalk ==
    /\ app \in Apps(BaseURLs, {47}, BOOLEAN)
    /\ \E query \in WalkQueries : req = HandleRequest(app, query)
    /\ link = NoLink
    /\ again = NoLink
    /\ calc = NoRender
    /\ \E control \in {"Next", "Previous"} :
          call = Walk(control, CurrentInfo.CurrentPage)

NextWalk ==
    \/ TakeNext
    \/ TakePrevious
    \/ Follow

\* NextWalk is enabled: a link was taken and is followed next, or the
\* control the user follows is rendered as a link.
WalkCanMove ==
    \/ link # NoLink
    \/ /\ call.fn = "walk"
       /\ PaginationOn(CurrentData)
       /\ Deref(CurrentData.Options.Pagination).ShowControls
       /\ IF call.args[1] = "Next" THEN NextIsLink(CurrentInfo)
          ELSE PreviousIsLink(CurrentInfo)

\* WF_vars(NextWalk), with WalkCanMove for ENABLED <<NextWalk>>_vars.
WalkFairness == []<>(~WalkCanMove) \/ []<><<NextWalk>>_vars

\* The user keeps following the control: a link that is there is taken, a
\* link taken is followed.
SpecWalk == InitWalk /\ [][NextWalk]_vars /\ WalkFairness

\* The pagination control of both versions.
SpecItems == InitCalc /\ [][RenderPaginationControl]_vars

NextPaging ==
    \/ StartPaging
    \/ RenderNextPage

\* The in-memory version rendered page after page.
SpecPaging == InitCalc /\ [][NextPaging]_vars

NextCodec ==
    \/ CallParse
    \/ CallSerializeParse

\* The query codec on its own.
SpecCodec == InitCalc /\ [][NextCodec]_vars

---------------------------------------------------------------------------
(* Properties of the pagination arithmetic (SpecCalc).                     *)

\* A render whose pagination is enabled with a page size of at least 1.
Paginated ==
    /\ calc.version # "none"
    /\ ~PaginationOff(calc.pagination)

\* C1: with pagination enabled and a page size of at least 1,
\* calculatePagination returns TotalPages = ceil(TotalRows / PageSize) and
\* TotalPages >= 1; with no rows at all TotalPages is 1.
C1_TotalPagesCeilAtLeastOne ==
    Paginated =>
        /\ calc.info.TotalPages >= 1
        /\ calc.info.TotalRows = 0 => calc.info.TotalPages = 1
        /\ calc.info.TotalRows > 0 =>
              /\ calc.info.TotalPages * calc.info.PageSize >= calc.info.TotalRows
              /\ (calc.info.TotalPages - 1) * calc.info.PageSize
                     < calc.info.TotalRows

\* C2: with pagination enabled and a page size of at least 1, whatever page
\* is requested, the CurrentPage returned is within 1..TotalPages: a request
\* below 1 becomes 1, a request above TotalPages becomes TotalPages.
C2_CurrentPageClamped ==
    Paginated =>
        LET requested == Deref(calc.pagination).CurrentPage
        IN  /\ 1 <= calc.info.CurrentPage
            /\ calc.info.CurrentPage <= calc.info.TotalPages
            /\ requested < 1 => calc.info.CurrentPage = 1
            /\ requested > calc.info.TotalPages =>
                  calc.info.CurrentPage = calc.info.TotalPages

\* C3: in the in-memory version, with pagination enabled and a page size of
\* at least 1, paginateRows returns rows[StartRow-1 : EndRow], the bounds
\* satisfy 0 <= StartRow-1 <= EndRow <= len(rows), and the render does not
\* abort, the empty row list included.
C3_SliceInRange ==
    (Paginated /\ calc.version = "memory") =>
        /\ ~calc.shown.panic
        /\ 0 <= calc.info.StartRow - 1
        /\ calc.info.StartRow - 1 <= calc.info.EndRow
        /\ calc.info.EndRow <= Len(calc.rows)
        /\ calc.shown.rows =
              SubSeq(calc.rows, calc.info.StartRow, calc.info.EndRow)

\* The smaller of two integers.
Min(a, b) == IF a < b THEN a ELSE b

\* C14: with pagination enabled, a page size of at least 1 and at least one
\* row, whatever page is requested, StartRow = (CurrentPage-1)*PageSize + 1
\* and EndRow = min(CurrentPage*PageSize, TotalRows), with
\* 1 <= StartRow <= EndRow <= TotalRows; 47 rows, page size 10, page 3
\* give TotalPages 5, StartRow 21, EndRow 30.
C14_RowWindow ==
    /\ (Paginated /\ calc.info.TotalRows >= 1) =>
          /\ calc.info.StartRow
                 = (calc.info.CurrentPage - 1) * calc.info.PageSize + 1
          /\ calc.info.EndRow
                 = Min(calc.info.CurrentPage * calc.info.PageSize,
                       calc.info.TotalRows)
          /\ 1 <= calc.info.StartRow
          /\ calc.info.StartRow <= calc.info.EndRow
          /\ calc.info.EndRow <= calc.info.TotalRows
    /\ calculatePagination(10, Ptr(NewPaginationStruct(TRUE, 10, 3, 47)))
           = PaginationInfo(3, 5, 47, 10, 21, 30)
    /\ calculatePaginationInMemory(47, Ptr(NewPaginationStruct(TRUE, 10, 3, 0)))
           = PaginationInfo(3, 5, 47, 10, 21, 30)

\* The last page, not full, reached by a request beyond it.
C14_PartialLastPage ==
    /\ Paginated
    /\ calc.info.TotalRows >= 1
    /\ Deref(calc.pagination).CurrentPage > calc.info.TotalPages
    /\ calc.info.EndRow = calc.info.TotalRows
    /\ calc.info.EndRow < calc.info.CurrentPage * calc.info.PageSize

\* C15: in the database version TotalRows is Pagination.TotalCount when
\* that is not zero and the number of rows supplied otherwise; the rows
\* rendered are the rows supplied, in order and unsliced, whatever the
\* current page and the page size, also when more rows are supplied than a
\* page holds or than EndRow-StartRow+1.
C15_DatabaseRowsAsSupplied ==
    calc.version = "database" =>
        /\ Paginated =>
              calc.info.TotalRows =
                  IF Deref(calc.pagination).TotalCount # 0
                  THEN Deref(calc.pagination).TotalCount
                  ELSE Len(calc.rows)
        /\ ~calc.shown.panic
        /\ calc.shown.rows = calc.rows

\* More rows supplied than a page holds and than the window of the computed
\* state, with a total count given.
C15_MoreRowsThanAPage ==
    /\ calc.version = "database"
    /\ Paginated
    /\ Deref(calc.pagination).TotalCount # 0
    /\ Len(calc.rows) > calc.info.PageSize
    /\ Len(calc.rows) # calc.info.EndRow - calc.info.StartRow + 1
    /\ calc.info.CurrentPage > 1

\* C18: when the pagination config is absent, disabled or has a page size
\* of 0 or less, calculatePagination returns the single-page state for every
\* number n of rows and every requested page: CurrentPage = 1,
\* TotalPages = 1, TotalRows = n, PageSize = n, StartRow = 1, EndRow = n;
\* and paginateRows of the in-memory version returns all rows unchanged.
C18_SinglePageState ==
    (/\ calc.version # "none"
     /\ \/ calc.pagination = Nil
        \/ ~Deref(calc.pagination).Enabled
        \/ Deref(calc.pagination).PageSize <= 0) =>
        LET n == Len(calc.rows)
        IN  /\ calc.info = PaginationInfo(1, 1, n, n, 1, n)
            /\ calc.version = "memory" =>
                  /\ ~calc.shown.panic
                  /\ calc.shown.rows = calc.rows

\* Rows rendered by the in-memory version with pagination enabled, a page
\* size of 0 or less and a page beyond the first requested.
C18_EnabledWithoutPageSize ==
    /\ calc.version = "memory"
    /\ calc.pagination # Nil
    /\ Deref(calc.pagination).Enabled
    /\ Deref(calc.pagination).PageSize <= 0
    /\ Deref(calc.pagination).CurrentPage > 1
    /\ Len(calc.rows) > 1

---------------------------------------------------------------------------
(* Properties of the links of a rendered page.                             *)

\* The key=value pairs of the query of a URL.
QueryPairs(url) ==
    IF QueryOf(url) = <<>> THEN <<>> ELSE Split(QueryOf(url), "&")

\* The URL carries the pair key=value.
Carries(url, key, value) ==
    \E i \in 1..Len(QueryPairs(url)) : QueryPairs(url)[i] = KV(key, value)

\* The URL carries no pair of that key.
Omits(url, key) ==
    \A i \in 1..Len(QueryPairs(url)) :
        SplitN2(QueryPairs(url)[i], "=")[1] # key

\* C4: every page link for a target page N (Previous, Next, numbered)
\* carries page=N and every other active parameter with its current value:
\* sort_by and sort_order when sorting is enabled, page_size, and the search
\* term when search is enabled and the term is not empty.
C4_PageLinkCarriesState ==
    link.kind = "page" =>
        /\ Carries(link.url, Str("page"), Itoa(link.target))
        /\ app.enableSorting =>
              /\ req.sortBy # <<>> =>
                    Carries(link.url, Str("sort_by"), req.sortBy)
              /\ Carries(link.url, Str("sort_order"), req.sortOrder)
        /\ Carries(link.url, Str("page_size"), Itoa(req.pageSize))
        /\ (app.enableSearch /\ req.search # <<>>) =>
              Carries(link.url, Str("search"), req.search)

\* A page link to the next page, built while a column is sorted, a search
\* is active and the page size is not the default.
C4_PageLinkOfSortedSearch ==
    /\ link.kind = "page"
    /\ link.target = req.page + 1
    /\ app.enableSorting /\ req.sortBy # <<>>
    /\ app.enableSearch /\ req.search # <<>>
    /\ req.pageSize # app.pageSize

\* C5: building the link to page N twice from the same state (the same
\* PaginationInfo, Pagination and preserved parameters) yields the same URL,
\* character for character, however many parameters are preserved.
C5_PageLinkBuiltTwiceIdentical ==
    again.kind = "page" => again.url = link.url

\* C6: following a sort link resets the page to 1 and keeps the page size
\* and the search term, whatever the current page and the base URLs:
\* ParsePageFromQuery on the link's query returns 1, and the page size and
\* search term parsed from it are the current ones.
C6_SortLinkResetsPageKeepsRest ==
    link.kind = "sort" =>
        /\ ParsePageFromQuery(QueryOf(link.url), app.pageParam) = 1
        /\ ParsePageSizeFromQuery(QueryOf(link.url), app.pageSize)
               = req.pageSize
        /\ app.enableSearch =>
              ParseSearchFromQuery(QueryOf(link.url), app.searchParam)
                  = req.search

\* C7: the sort link of header C sets sort_by=C, and sets sort_order=desc
\* exactly when C is the active SortBy and the active SortOrder is "asc"; in
\* every other case (another column active, order "desc", empty order, no
\* active sort) it sets sort_order=asc.
C7_SortLinkToggleRule ==
    link.kind = "sort" =>
        LET header == Headers[link.target]
            order  == IF header = req.sortBy /\ req.sortOrder = Str("asc")
                      THEN Str("desc") ELSE Str("asc")
            parsed == ParseSortFromQuery(QueryOf(link.url), app.sortParam,
                                         app.orderParam)
        IN  /\ Carries(link.url, Str("sort_by"), header)
            /\ Carries(link.url, Str("sort_order"), order)
            /\ parsed.sortBy = header
            /\ parsed.sortOrder = order

\* The sort link of the column that is sorted ascending.
C7_LinkOfAscendingColumn ==
    /\ link.kind = "sort"
    /\ Headers[link.target] = req.sortBy
    /\ req.sortOrder = Str("asc")

\* The other one of the two orders.
OtherOrder(order) == IF order = Str("asc") THEN Str("desc") ELSE Str("asc")

\* C8: across requests, each rendered from the state parsed out of the link
\* that was followed: following the sort link of the sorted column turns
\* asc into desc and desc into asc and keeps the column, so that the order
\* returns after exactly two toggles; and once a column is sorted, no link
\* that is followed (sort, page, page size, search, clear search) leads to a
\* request with no sort column.
C8_SortToggleTwoCycle ==
    [][/\ (link.kind = "sort" /\ Headers[link.target] = req.sortBy) =>
              /\ req'.sortBy = req.sortBy
              /\ req'.sortOrder = OtherOrder(req.sortOrder)
              /\ req'.sortOrder # req.sortOrder
              /\ OtherOrder(req'.sortOrder) = req.sortOrder
       /\ (app.enableSorting /\ req.sortBy # <<>>) => req'.sortBy # <<>>
      ]_vars

\* Column Name sorted descending, which takes two toggles from no sort, and
\* its sort link about to be followed again.
C8_SecondToggleOfName ==
    /\ link.kind = "sort"
    /\ Headers[link.target] = Str("Name")
    /\ req.sortBy = Str("Name")
    /\ req.sortOrder = Str("desc")

\* C9: the page-size link of option S sets page_size=S and page=1 and keeps
\* the active sort_by, sort_order and search term; parsing the link again
\* (ParsePageSizeFromQuery, ParsePageFromQuery) gives page size S and page 1,
\* whatever the current page, the current page size and the base URL.
C9_PageSizeLinkSetsSizeAndPageOne ==
    link.kind = "size" =>
        /\ Carries(link.url, Str("page_size"), Itoa(link.target))
        /\ Carries(link.url, Str("page"), Str("1"))
        /\ app.enableSorting =>
              /\ req.sortBy # <<>> =>
                    Carries(link.url, Str("sort_by"), req.sortBy)
              /\ Carries(link.url, Str("sort_order"), req.sortOrder)
        /\ (app.enableSearch /\ req.search # <<>>) =>
              Carries(link.url, Str("search"), req.search)
        /\ ParsePageSizeFromQuery(QueryOf(link.url), app.pageSize)
               = link.target
        /\ ParsePageFromQuery(QueryOf(link.url), app.pageParam) = 1

\* The parameters of the current request other than the search term and the
\* page: the sort column when one is sorted, the sort order, the page size.
CurrentParamsButSearchAndPage ==
    (IF app.enableSorting /\ req.sortBy # <<>>
     THEN {[name |-> Str("sort_by"), value |-> req.sortBy]} ELSE {})
    \cup (IF app.enableSorting
          THEN {[name |-> Str("sort_order"), value |-> req.sortOrder]} ELSE {})
    \cup {[name |-> Str("page_size"), value |-> Itoa(req.pageSize)]}

\* C10: the hidden fields of the search form are exactly the current
\* parameters other than the search parameter and page, each once; the
\* submitted form sends no page (the page parses to 1) and sends the current
\* sort_by, sort_order and page_size unchanged.
C10_SearchFormHiddenFields ==
    link.kind = "search" =>
        LET query == QueryOf(link.url)
            sort  == ParseSortFromQuery(query, app.sortParam, app.orderParam)
        IN  /\ {link.hidden[i] : i \in 1..Len(link.hidden)}
                   = CurrentParamsButSearchAndPage
            /\ Len(link.hidden) = Cardinality(CurrentParamsButSearchAndPage)
            /\ Omits(link.url, Str("page"))
            /\ ParsePageFromQuery(query, app.pageParam) = 1
            /\ ParsePageSizeFromQuery(query, app.pageSize) = req.pageSize
            /\ app.enableSorting =>
                  /\ sort.sortBy = req.sortBy
                  /\ sort.sortOrder = req.sortOrder

\* The search form of page 2 or later of a sorted table whose page size is
\* not the default.
C10_SearchFormOfSortedLaterPage ==
    /\ link.kind = "search"
    /\ req.page > 1
    /\ app.enableSorting /\ req.sortBy # <<>>
    /\ req.pageSize # app.pageSize
    /\ Len(link.hidden) = 3

\* C11: the clear-search link is generated exactly when the current search
\* term is not empty; it carries no search parameter and no page parameter,
\* and it keeps the current sort_by, sort_order and page_size.
C11_ClearLinkDropsSearchAndPage ==
    /\ app.enableSearch => (ClearLinkShown <=> req.search # <<>>)
    /\ ~app.enableSearch => ~ClearLinkShown
    /\ link.kind = "clear" =>
          LET query == QueryOf(link.url)
              sort  == ParseSortFromQuery(query, app.sortParam,
                                          app.orderParam)
          IN  /\ req.search # <<>>
              /\ Omits(link.url, Str("search"))
              /\ Omits(link.url, Str("page"))
              /\ Carries(link.url, Str("page_size"), Itoa(req.pageSize))
              /\ ParsePageSizeFromQuery(query, app.pageSize) = req.pageSize
              /\ app.enableSorting =>
                    /\ req.sortBy # <<>> =>
                          Carries(link.url, Str("sort_by"), req.sortBy)
                    /\ Carries(link.url, Str("sort_order"), req.sortOrder)
                    /\ sort.sortBy = req.sortBy
                    /\ sort.sortOrder = req.sortOrder

\* The clear link of page 2 or later of a sorted search result.
C11_ClearLinkOfSortedSearch ==
    /\ link.kind = "clear"
    /\ req.page > 1
    /\ app.enableSorting /\ req.sortBy # <<>>

---------------------------------------------------------------------------
(* Properties of the query codec (SpecCodec).                              *)

\* C12: round trip.  For every base URL and every mapping whose values hold
\* no "&" and no "=", parseQueryParams applied to the link serialised from
\* them returns a mapping that has every key of the original mapping with
\* its original value.
C12_ParseOfSerializedContainsMapping ==
    call.fn = "generateURL" =>
        LET mapping == call.args[2]
            parsed  == call.result.parsed
        IN  \A key \in DOMAIN mapping :
                /\ key \in DOMAIN parsed
                /\ parsed[key] = mapping[key]

\* The mapping a string denotes: what follows its first "?" (the whole
\* string when it has none), split on "&", each pair split on its first
\* "="; pairs without "=" do not count, the last pair of a key decides.
QueryMapping(x) ==
    LET rest   == IF Contains(x, "?")
                  THEN SubSeq(x, IndexOf(x, "?") + 1, Len(x)) ELSE x
        pairs  == Split(rest, "&")
        good   == {i \in 1..Len(pairs) : Contains(pairs[i], "=")}
        keyOf(i) == SplitN2(pairs[i], "=")[1]
        lastOf(k) == CHOOSE i \in good :
                        /\ keyOf(i) = k
                        /\ \A j \in good : keyOf(j) = k => j <= i
    IN  [k \in {keyOf(i) : i \in good} |->
            SplitN2(pairs[lastOf(k)], "=")[2]]

\* C13: for every string x, parseQueryParams(x) is the mapping x denotes:
\* everything up to and including the first "?" removed, the rest split on
\* "&" and each pair on its first "=", pairs without "=" discarded, the last
\* occurrence of a key winning; the empty mapping for the empty string.
C13_ParseQueryParamsByRule ==
    call.fn = "parseQueryParams" =>
        /\ call.result = QueryMapping(call.args[1])
        /\ call.args[1] = <<>> => call.result = EmptyMap

---------------------------------------------------------------------------
(* Properties of the pagination controls (SpecControls).                   *)

\* The larger of two integers.
Max(a, b) == IF a > b THEN a ELSE b

\* The pagination control is written: pagination enabled, ShowControls, and
\* more than one page.
ControlWritten ==
    /\ call.fn = "controls"
    /\ Deref(call.args[2]).Enabled
    /\ Deref(call.args[2]).ShowControls
    /\ call.result.info.TotalPages > 1

C17_InfoLine ==
    (call.fn = "controls" /\ call.result.infoShown) =>
        LET info == call.result.info
        IN  /\ (call.result.infoLine = <<"No records found">>)
                   <=> info.TotalRows = 0
            /\ info.TotalRows # 0 =>
                  call.result.infoLine =
                      <<"Showing ">> \o Itoa(info.StartRow) \o <<" to ">>
                      \o Itoa(info.EndRow) \o <<" of ">>
                      \o Itoa(info.TotalRows) \o <<" entries">>
            /\ info.TotalRows = 0 => info.EndRow < info.StartRow

---------------------------------------------------------------------------
(* Properties of the database paging helpers (SpecHelpers).                *)

\* C19: for all integers page and pageSize,
\* CalculateDatabaseOffset(page, pageSize) = (max(page, 1) - 1) * pageSize,
\* and CalculateDatabaseLimit(pageSize) is pageSize when pageSize > 0 and 10
\* otherwise.
C19_OffsetAndLimit ==
    call.fn = "offsetLimit" =>
        LET page     == call.args[1]
            pageSize == call.args[2]
        IN  /\ call.result.offset = (Max(page, 1) - 1) * pageSize
            /\ pageSize > 0 => call.result.limit = pageSize
            /\ pageSize <= 0 => call.result.limit = 10

\* A page below 1 with a page size above 0.
C19_PageBelowOne ==
    /\ call.fn = "offsetLimit"
    /\ call.args[1] < 0
    /\ call.args[2] > 1
    /\ call.result.offset = 0

---------------------------------------------------------------------------
(* Properties of RenderHTML on the Data field (SpecData).                  *)

\* The Data value is not a sequence of structured records of one shape: not
\* a slice, or a slice with an element that is not a record (a nil pointer
\* included), or an empty slice of a non-record element type.
InvalidDataShape(data) ==
    \/ data.kind # "slice"
    \/ \E i \in 1..Len(data.elems) : data.elems[i] \notin {"struct", "struct*"}
    \/ \E i, j \in 1..Len(data.elems) : data.elems[i] # data.elems[j]
    \/ Len(data.elems) = 0 /\ data.elemType \notin {"struct", "ptr"}

\* C20: whenever the Data value is not a sequence, or is a sequence whose
\* elements are not all structured records of one shape (every element
\* counts, nil pointers and empty sequences of a non-record element type
\* included), RenderHTML returns an error and the empty string: it does not
\* abort and returns no markup.
C20_InvalidDataShapeIsAnError ==
    (call.fn = "RenderHTML" /\ InvalidDataShape(call.args[1])) =>
        /\ ~call.result.aborted
        /\ call.result.err
        /\ call.result.output = <<>>

---------------------------------------------------------------------------
(* Properties of the query parsers (SpecParsers).                          *)

\* The name a parser looks for: the given one, or the default.
NameOr(name, default) == IF name = <<>> THEN Str(default) ELSE name

\* Some parameter of the list has the key and one of the values.
HasParam(params, key, values) ==
    \E i \in 1..Len(params) :
        params[i].eq /\ params[i].key = key /\ params[i].value \in values

\* C21: for every query string ParsePageFromQuery returns an integer of at
\* least 1, and 1 when no parameter of the page name has a positive integer
\* value; ParseSortFromQuery returns the order "asc" or "desc", and "asc"
\* when no parameter of the order name has the value "desc".
C21_ParsersNormalise ==
    call.fn = "ParseFromQuery" =>
        LET params == call.args[2]
            names  == call.args[3]
        IN  /\ call.result.page \in Nat
            /\ call.result.page >= 1
            /\ ~HasParam(params, NameOr(names.page, "page"),
                         {Str("3"), Str("2"), <<"+", "2">>})
                  => call.result.page = 1
            /\ call.result.sort.sortOrder \in {Str("asc"), Str("desc")}
            /\ ~HasParam(params, NameOr(names.order, "sort_order"),
                         {Str("desc")})
                  => call.result.sort.sortOrder = Str("asc")

\* A query whose page values are zero and negative and whose order is
\* neither "asc" nor "desc" has been parsed.
C21_ZeroNegativeAndUnknownOrder ==
    /\ call.fn = "ParseFromQuery"
    /\ call.args[1] = <<"?", "page", "=", "0", "&", "page", "=", "-", "3",
                        "&", "sort_order", "=", "x">>
    /\ call.result.page = 1
    /\ call.result.sort.sortOrder = Str("asc")

---------------------------------------------------------------------------
(* Properties of renders that share their input (SpecShared).              *)

\* C22: a render leaves its input unchanged: at every point of two renders
\* of one shared value, with or without an error, the options, the
\* configurations they point to, the headers and the rows are what they were
\* before, and each render that has returned has produced what rendering
\* that value alone produces; SetPage returns a copy whose pagination has
\* the given page and leaves the pagination of the original as it was.
C22_RenderLeavesInputUnchanged ==
    /\ call.fn = "RenderHTML|RenderHTML" =>
          /\ call.result.store = call.args[1]
          /\ \A p \in {1, 2} :
                call.result.pc[p] = 6 =>
                    call.result.out[p] =
                        RenderHTMLAlone(call.args[1], call.args[2])
    /\ call.fn = "SetPage" =>
          LET heap == call.args[1]
              data == call.args[2]
              page == call.args[3]
              new  == call.result
          IN  /\ \A a \in 1..Len(heap) : new.heap[a] = heap[a]
              /\ new.data.Headers = data.Headers
              /\ new.data.Rows = data.Rows
              /\ IF data.Options.Pagination = 0 THEN new.data = data
                 ELSE /\ new.data.Options.Pagination # data.Options.Pagination
                      /\ new.heap[new.data.Options.Pagination] =
                            [heap[data.Options.Pagination]
                                 EXCEPT !.CurrentPage = page]

\* One render of a request for a page past the last one has returned while
\* the other render of the same value is between its calls.
C22_OneReturnedOtherUnderWay ==
    /\ call.fn = "RenderHTML|RenderHTML"
    /\ ~call.args[2]
    /\ PaginationOn(call.args[1])
    /\ Deref(call.args[1].Options.Pagination).CurrentPage = 99
    /\ call.result.pc = <<6, 4>>
    /\ call.result.out[1].info.CurrentPage = 5

---------------------------------------------------------------------------
(* Properties of configured parameter names (SpecNames).                   *)

\* C23: with Sorting.QueryParam and Sorting.OrderParam set, every page link
\* and every page-size link carries the active sort column and order under
\* the configured names; with Pagination.QueryParam set, every sort link and
\* every submitted search form has no page under the configured name.
C23_ConfiguredNamesEndToEnd ==
    /\ (link.kind \in {"page", "size"} /\ app.enableSorting) =>
          /\ req.sortBy # <<>> =>
                Carries(link.url, app.sortParam, req.sortBy)
          /\ Carries(link.url, app.orderParam, req.sortOrder)
    /\ link.kind \in {"sort", "search"} =>
          Omits(link.url, app.pageParam)

---------------------------------------------------------------------------
(* Properties of PreserveQuery (SpecPreserve).                             *)

\* C24: with PreserveQuery = false a page link carries the page parameter
\* and nothing else; with PreserveQuery = true it carries the page parameter
\* and the other active parameters (the page size, the sort column and order
\* when sorting is enabled, the search term when one is active).
C24_PreserveQueryDecides ==
    call.fn = "generatePaginationHTML" =>
        LET data == call.args[1]
            p    == Deref(data.Options.Pagination)
            url  == call.result
        IN  /\ Carries(url, Str("page"), Itoa(call.args[2]))
            /\ ~p.PreserveQuery => Len(QueryPairs(url)) = 1
            /\ p.PreserveQuery =>
                  /\ Carries(url, Str("page_size"), Itoa(p.PageSize))
                  /\ data.Options.Sorting # Nil =>
                        Carries(url, Str("sort_order"),
                                Deref(data.Options.Sorting).SortOrder)
                  /\ (data.Options.Search # Nil
                        /\ Deref(data.Options.Search).SearchTerm # <<>>) =>
                        Carries(url, Str("search"),
                                Deref(data.Options.Search).SearchTerm)

---------------------------------------------------------------------------
(* Properties of navigation.                                               *)

\* C25: for every state and every base URL, with a query of its own or
\* without, ParsePageFromQuery under the configured page parameter name
\* gives N on the query of the generated link to page N.
C25_PageLinkParsesToItsTarget ==
    link.kind = "page" =>
        ParsePageFromQuery(QueryOf(link.url), app.pageParam) = link.target

\* The user is where the walk ends: on the last page with Next no link,
\* or on page 1 with Previous no link.
WalkAtEnd ==
    /\ link = NoLink
    /\ call.args[1] = "Next" =>
          /\ CurrentInfo.CurrentPage = CurrentInfo.TotalPages
          /\ ~NextIsLink(CurrentInfo)
    /\ call.args[1] = "Previous" =>
          /\ CurrentInfo.CurrentPage = 1
          /\ ~PreviousIsLink(CurrentInfo)

\* C26: a user who keeps following Next moves one page forward per request
\* and in the end stays on the last page, where Next is no link; a user who
\* keeps following Previous moves one page back per request and in the end
\* stays on page 1, where Previous is no link.
C26_WalkReachesTheEnd ==
    /\ [][link # NoLink =>
            CurrentInfo'.CurrentPage = CurrentInfo.CurrentPage +
                (IF call.args[1] = "Next" THEN 1 ELSE 0 - 1)]_vars
    /\ <>[]WalkAtEnd

\* A walk along Next that started on page 1 has arrived on the last of five
\* pages.
C26_WalkedFromFirstToLast ==
    /\ call.fn = "walk"
    /\ call.args = <<"Next", 1>>
    /\ CurrentInfo.TotalPages = 5
    /\ CurrentInfo.CurrentPage = 5
    /\ link = NoLink

---------------------------------------------------------------------------
(* Properties of the items of the pagination control (SpecItems).          *)

\* The positions of the items of a kind.
ItemsOfKind(items, kinds) == {i \in 1..Len(items) : items[i].kind \in kinds}

\* C27: in every rendered pagination control, of either version: there are
\* no items when TotalPages <= 1; every link (Previous, Next, numbered) goes
\* to a page of 1..TotalPages other than CurrentPage; CurrentPage is there
\* exactly once, as the active item and not a link; Previous is a link iff
\* CurrentPage > 1 and Next is a link iff CurrentPage < TotalPages.
C27_PaginationControlItems ==
    (call.fn = "generatePaginationHTML" /\ call.result.shown) =>
        LET info  == call.result.info
            items == call.result.items
        IN  IF info.TotalPages <= 1 THEN items = <<>>
            ELSE /\ \A i \in ItemsOfKind(items, {"link"}) :
                       /\ items[i].page \in 1..info.TotalPages
                       /\ items[i].page # info.CurrentPage
                 /\ Cardinality(ItemsOfKind(items, {"active"})) = 1
                 /\ \A i \in ItemsOfKind(items, {"active"}) :
                       items[i].page = info.CurrentPage
                 /\ items[1].label = "Previous"
                 /\ items[1].kind = "link" <=> info.CurrentPage > 1
                 /\ items[Len(items)].label = "Next"
                 /\ items[Len(items)].kind = "link" <=>
                       info.CurrentPage < info.TotalPages

\* The control of the in-memory version on the last of more than five
\* pages: Previous is a link, Next is not.
C27_ControlOnLastOfManyPages ==
    /\ call.fn = "generatePaginationHTML"
    /\ call.args[1] = "memory"
    /\ call.result.shown
    /\ call.result.info.TotalPages > 5
    /\ call.result.info.CurrentPage = call.result.info.TotalPages
    /\ call.result.items[1].kind = "link"
    /\ call.result.items[Len(call.result.items)].kind = "disabled"

---------------------------------------------------------------------------
(* Properties of the query of a generated URL.                             *)

\* No two pairs of the URL's query have the same key.
NoRepeatedKey(url) ==
    \A i, j \in 1..Len(QueryPairs(url)) :
        i # j => SplitN2(QueryPairs(url)[i], "=")[1]
                     # SplitN2(QueryPairs(url)[j], "=")[1]

\* C28: in every page link, sort link, page-size link, search form action
\* and clear-search link each parameter key occurs at most once in the query
\* string, for every base URL, one with a query of its own included.
C28_NoParameterTwice ==
    /\ link.kind \in {"page", "size", "sort", "clear"} =>
          NoRepeatedKey(link.url)
    /\ link.kind = "search" =>
          LET params == SearchParams(CurrentData, CurrentInfo)
          IN  \A order \in Orders(DOMAIN params) :
                 NoRepeatedKey(searchActionURL(
                     Deref(CurrentData.Options.Search), params, order))

---------------------------------------------------------------------------
(* Properties of the pages of the in-memory version (SpecPaging).          *)

\* The rows of the pages rendered so far, one after the other.
RECURSIVE ConcatShown(_)
ConcatShown(pages) ==
    IF pages = <<>> THEN <<>>
    ELSE ConcatShown(SubSeq(pages, 1, Len(pages) - 1))
             \o pages[Len(pages)].shown.rows

\* C29: in in-memory mode with pagination enabled, pageSize >= 1 and at
\* least one row, the pages partition the rows: no page panics, each page
\* has EndRow - StartRow + 1 rows, each page but the last has pageSize rows,
\* the pages rendered so far give the first rows of the list in order, and
\* the pages 1..TotalPages together give the whole list, so that every row
\* is on exactly one page.
C29_PagesPartitionRows ==
    call.fn = "paginateRows" =>
        LET rows     == call.args[1]
            pageSize == call.args[2]
            pages    == call.result
        IN  /\ \A p \in 1..Len(pages) :
                  /\ ~pages[p].shown.panic
                  /\ pages[p].info.CurrentPage = p
                  /\ Len(pages[p].shown.rows) =
                        pages[p].info.EndRow - pages[p].info.StartRow + 1
                  /\ p < pages[p].info.TotalPages =>
                        Len(pages[p].shown.rows) = pageSize
                  /\ Len(pages[p].shown.rows) >= 1
            /\ ConcatShown(pages) = SubSeq(rows, 1, Len(ConcatShown(pages)))
            /\ (pages # <<>> /\ Len(pages) = pages[1].info.TotalPages) =>
                  ConcatShown(pages) = rows

\* All three pages of five rows with page size 2 have been rendered; the
\* last page has one row.
C29_ThreePagesOfFiveRows ==
    /\ call.fn = "paginateRows"
    /\ Len(call.args[1]) = 5
    /\ call.args[2] = 2
    /\ Len(call.result) = 3
    /\ call.result[3].shown.rows = <<5>>

---------------------------------------------------------------------------
(* Properties of the database window against the paging helpers (SpecCalc). *)

\* C30: in database mode, for every requested page, pageSize >= 1 and
\* totalCount >= 1, the rendered StartRow - 1 is CalculateDatabaseOffset of
\* the requested page and EndRow - StartRow + 1 is at most
\* CalculateDatabaseLimit, a requested page past the last one included.
C30_WindowAgreesWithOffsetAndLimit ==
    (/\ calc.version = "database"
     /\ calc.pagination # Nil
     /\ IF calc.pagination = Nil THEN FALSE
        ELSE /\ Deref(calc.pagination).Enabled
             /\ Deref(calc.pagination).PageSize >= 1
             /\ Deref(calc.pagination).TotalCount >= 1) =>
        LET p == Deref(calc.pagination)
        IN  /\ calc.info.StartRow - 1 =
                  CalculateDatabaseOffset(p.CurrentPage, p.PageSize)
            /\ calc.info.EndRow - calc.info.StartRow + 1 <=
                  CalculateDatabaseLimit(p.PageSize)

===========================================================================
